---- MODULE Spec2Model ----
(***************************************************************************)
(* Query-generation layer of the scouting dashboard (src/src/queries.py).  *)
(*                                                                         *)
(* The builders return SQL text; what the text means is decided by the     *)
(* warehouse that runs it.  The model therefore has two halves:            *)
(*   - the builders, translated from the Python (filter predicates as the  *)
(*     list of clauses the code appends, with the literal text it embeds); *)
(*   - the relational meaning of the CTEs each query is made of, evaluated *)
(*     over the physical per-season tables (bag semantics through a row    *)
(*     identity field, SQL three-valued logic for NULL).                   *)
(* State: the physical tables, the request of the UI session, the built    *)
(* query and the relations the executor computed for it.                   *)
(***************************************************************************)
EXTENDS Integers, Sequences, FiniteSets, TLC

VARIABLES
    schedule_tbl,   \* year -> rows of schedule_brasileirao_serie_a_<year>
    events_tbl,     \* year -> rows of eventos_brasileirao_serie_a_<year>
    req,            \* the parameters the page passes to the builder
    pc,             \* "start" | "built" | "done"
    sql,            \* the query the builder returned
    result,         \* the relations the executor computed for sql
    df,             \* the frames of the ranking page in conversion mode
    py              \* the interpreter: the module global, the callers'
                    \* argument objects and the frames of the builder calls

vars == <<schedule_tbl, events_tbl, req, pc, sql, result, df, py>>

(***************************************************************************)
(* Bounds of the checked instances.                                        *)
(***************************************************************************)
MaxScore == 2
MaxEvents == 2

(***************************************************************************)
(* SQL NULL.  Text columns hold strings, numeric columns integers.         *)
(***************************************************************************)
NULL == "<null>"
NULLNUM == 0 - 999999    \* an integer no column holds

Max(a, b) == IF a >= b THEN a ELSE b

(***************************************************************************)
(* Strings.  A string is the sequence of its characters.                   *)
(***************************************************************************)
CharAt(s, i) == SubSeq(s, i, i)

StartsAt(t, i, p) ==
    /\ i >= 1
    /\ i + Len(p) - 1 <= Len(t)
    /\ SubSeq(t, i, i + Len(p) - 1) = p

\* Python: p in t, for two str
Contains(t, p) == \E i \in 1..(Len(t) - Len(p) + 1) : StartsAt(t, i, p)

RECURSIVE Join(_, _)
\* Python: sep.join(xs)
Join(xs, sep) ==
    IF Len(xs) = 0 THEN ""
    ELSE IF Len(xs) = 1 THEN xs[1]
    ELSE xs[1] \o sep \o Join(Tail(xs), sep)

RECURSIVE SeqFilterNonEmpty(_)
\* Python: [q for q in xs if q]
SeqFilterNonEmpty(xs) ==
    IF Len(xs) = 0 THEN <<>>
    ELSE IF xs[1] = "" THEN SeqFilterNonEmpty(Tail(xs))
    ELSE <<xs[1]>> \o SeqFilterNonEmpty(Tail(xs))

(***************************************************************************)
(* Python values of the filter parameters: None, a str or a list of str.   *)
(***************************************************************************)
PyNone == [kind |-> "none", s |-> "", l |-> <<>>]
PyStr(x) == [kind |-> "str", s |-> x, l |-> <<>>]
PyList(xs) == [kind |-> "list", s |-> "", l |-> xs]

\* `is not None` in place of truthiness
TruthyNotNone(v) == v.kind # "none"

\* Python truthiness: None, "" and [] are false
Truthy(v) ==
    \/ v.kind = "str" /\ v.s # ""
    \/ v.kind = "list" /\ v.l # <<>>

\* Python: x in v.  On a str it is a substring test, on a list membership.
PyIn(x, v) ==
    IF v.kind = "str" THEN Contains(v.s, x)
    ELSE \E i \in 1..Len(v.l) : v.l[i] = x

\* isinstance(v, str): v = [v]
AsList(v) == IF v.kind = "str" THEN <<v.s>> ELSE v.l

(***************************************************************************)
(* re.escape (Python 3.7 and later): a backslash before each character     *)
(* that is special in a regular expression, and before nothing else.  The  *)
(* single quote is not one of them.                                        *)
(***************************************************************************)
ReSpecialChars ==
    {"(", ")", "[", "]", "{", "}", "?", "*", "+", "-", "|", "^", "$",
     "\\", ".", "&", "~", "#", " "}

RECURSIVE ReEscape(_)
ReEscape(s) ==
    IF Len(s) = 0 THEN ""
    ELSE (IF CharAt(s, 1) \in ReSpecialChars
          THEN "\\" \o CharAt(s, 1) ELSE CharAt(s, 1))
         \o ReEscape(SubSeq(s, 2, Len(s)))

RECURSIVE MapReEscape(_)
MapReEscape(xs) ==
    IF Len(xs) = 0 THEN <<>>
    ELSE <<ReEscape(xs[1])>> \o MapReEscape(Tail(xs))

(***************************************************************************)
(* The regular expressions the builders emit are alternatives, joined by   *)
(* "|", of characters and backslash-escaped characters.  An unescaped "."  *)
(* matches any character and an unescaped "|" separates alternatives.      *)
(* ReParse gives the alternatives, each a sequence of atoms.               *)
(***************************************************************************)
RECURSIVE ReParse(_, _, _)
ReParse(p, cur, alts) ==
    IF Len(p) = 0 THEN Append(alts, cur)
    ELSE IF CharAt(p, 1) = "\\"
         THEN IF Len(p) = 1 THEN <<>>   \* a trailing backslash: no pattern
              ELSE ReParse(SubSeq(p, 3, Len(p)),
                           Append(cur, [any |-> FALSE, ch |-> CharAt(p, 2)]), alts)
    ELSE IF CharAt(p, 1) = "|"
         THEN ReParse(SubSeq(p, 2, Len(p)), <<>>, Append(alts, cur))
    ELSE IF CharAt(p, 1) = "."
         THEN ReParse(SubSeq(p, 2, Len(p)),
                      Append(cur, [any |-> TRUE, ch |-> "."]), alts)
    ELSE ReParse(SubSeq(p, 2, Len(p)),
                 Append(cur, [any |-> FALSE, ch |-> CharAt(p, 1)]), alts)

AtomsMatchAt(text, i, atoms) ==
    \A k \in 1..Len(atoms) : atoms[k].any \/ CharAt(text, i + k - 1) = atoms[k].ch

\* REGEXP_CONTAINS(text, pattern) for a non-NULL text: a partial match
RegexpContains(text, pattern) ==
    LET alts == ReParse(pattern, <<>>, <<>>)
    IN  \E a \in 1..Len(alts) :
            \E i \in 1..(Len(text) - Len(alts[a]) + 1) : AtomsMatchAt(text, i, alts[a])

(***************************************************************************)
(* String literals of the generated SQL.  The builders paste values        *)
(* between single quotes; the warehouse ends the literal at the first      *)
(* quote that no backslash precedes.  In a raw literal r'...' a backslash  *)
(* and the character after it are both kept; in a plain literal the        *)
(* backslash is dropped.                                                   *)
(***************************************************************************)
RECURSIVE LiteralClose(_, _)
\* index in s (the text after the opening quote) of the closing quote, 0 if none
LiteralClose(s, i) ==
    IF i > Len(s) THEN 0
    ELSE IF CharAt(s, i) = "\\" THEN LiteralClose(s, i + 2)
    ELSE IF CharAt(s, i) = "'" THEN i
    ELSE LiteralClose(s, i + 1)

RECURSIVE Unescape(_)
Unescape(s) ==
    IF Len(s) = 0 THEN ""
    ELSE IF CharAt(s, 1) = "\\" /\ Len(s) >= 2
         THEN CharAt(s, 2) \o Unescape(SubSeq(s, 3, Len(s)))
    ELSE CharAt(s, 1) \o Unescape(SubSeq(s, 2, Len(s)))

ParseError == [ok |-> FALSE, vals |-> <<>>]

RECURSIVE ParseLiterals(_, _)
\* 'a', 'b', ... : the values of a comma-separated list of plain literals
ParseLiterals(s, acc) ==
    IF ~StartsAt(s, 1, "'") THEN ParseError
    ELSE LET rest == SubSeq(s, 2, Len(s))
             c == LiteralClose(rest, 1)
         IN  IF c = 0 THEN ParseError
             ELSE LET val == Unescape(SubSeq(rest, 1, c - 1))
                      after == SubSeq(rest, c + 1, Len(rest))
                  IN  IF after = "" THEN [ok |-> TRUE, vals |-> Append(acc, val)]
                      ELSE IF StartsAt(after, 1, ", ")
                           THEN ParseLiterals(SubSeq(after, 3, Len(after)), Append(acc, val))
                      ELSE ParseError

\* r'pattern' : the pattern, when the literal is the whole text
ParseRawLiteral(s) ==
    IF ~StartsAt(s, 1, "r'") THEN ParseError
    ELSE LET rest == SubSeq(s, 3, Len(s))
             c == LiteralClose(rest, 1)
         IN  IF c = 0 \/ c # Len(rest) THEN ParseError
             ELSE [ok |-> TRUE, vals |-> <<SubSeq(rest, 1, c - 1)>>]

(***************************************************************************)
(* A clause of a WHERE: the column, the operator and the literal text the  *)
(* builder pasted after it.                                                *)
(*   "true"    1=1                                                         *)
(*   "eq"      col = <text>                                                *)
(*   "in"      col IN (<text>)                                             *)
(*   "regexp"  REGEXP_CONTAINS(col, <text>)                                *)
(*   "notnull" col IS NOT NULL                                             *)
(***************************************************************************)
Clause(col, op, text) == [col |-> col, op |-> op, text |-> text]

ClauseValues(c) ==
    IF c.op = "regexp" THEN ParseRawLiteral(c.text)
    ELSE IF c.op \in {"eq", "in"} THEN ParseLiterals(c.text, <<>>)
    ELSE [ok |-> TRUE, vals |-> <<>>]

\* the text is not the SQL the builder meant: the warehouse rejects it, or
\* runs a predicate of another shape
ClauseMalformed(c) ==
    \/ ~ClauseValues(c).ok
    \/ c.op = "eq" /\ Len(ClauseValues(c).vals) # 1

\* SQL three-valued logic: "T", "F" or "N" (NULL); "E" for a malformed clause
EvalClause(c, row) ==
    LET v == row[c.col]
        p == ClauseValues(c)
    IN  IF c.op = "true" THEN "T"
        ELSE IF ClauseMalformed(c) THEN "E"
        ELSE IF c.op = "notnull" THEN (IF v = NULL THEN "F" ELSE "T")
        ELSE IF v = NULL THEN "N"
        ELSE IF c.op = "regexp"
             THEN (IF RegexpContains(v, p.vals[1]) THEN "T" ELSE "F")
        ELSE IF \E i \in 1..Len(p.vals) : p.vals[i] = v THEN "T" ELSE "F"

\* WHERE c1 AND c2 AND ... keeps the rows on which every clause is TRUE
Admits(where, row) == \A i \in 1..Len(where) : EvalClause(where[i], row) = "T"

WhereMalformed(where) == \E i \in 1..Len(where) : ClauseMalformed(where[i])

(***************************************************************************)
(* Filter predicate of get_dynamic_ranking_query (where_clauses and        *)
(* team_in_clause), one operator per dimension.                            *)
(***************************************************************************)
Quoted(xs) == "'" \o Join(xs, "', '") \o "'"

RECURSIVE MapOutcomes(_)
\* "Sucesso" -> Successful, "Falha" -> Unsuccessful, anything else as it is
MapOutcomes(xs) ==
    IF Len(xs) = 0 THEN <<>>
    ELSE <<IF xs[1] = "Sucesso" THEN "Successful"
           ELSE IF xs[1] = "Falha" THEN "Unsuccessful"
           ELSE xs[1]>> \o MapOutcomes(Tail(xs))

\* a str or list dimension on `col`: col IN ('a', 'b') or col = 'a'
MembershipClause(col, v) ==
    IF Truthy(v) /\ ~PyIn("Todos", v)
    THEN IF v.kind = "list"
         THEN <<Clause(col, "in", Quoted(v.l))>>
         ELSE <<Clause(col, "eq", Quoted(<<v.s>>))>>
    ELSE <<>>

OutcomeClause(outcomes) ==
    IF Truthy(outcomes) /\ ~PyIn("Todos", outcomes)
    THEN LET target_outcomes == MapOutcomes(AsList(outcomes))
         IN  IF target_outcomes # <<>>
             THEN <<Clause("outcome_type", "in", Quoted(target_outcomes))>>
             ELSE <<>>
    ELSE <<>>

QualifierClause(qualifiers) ==
    IF Truthy(qualifiers) /\ ~PyIn("Todos (Qualquer)", qualifiers)
    THEN LET safe_quals == MapReEscape(SeqFilterNonEmpty(AsList(qualifiers)))
         IN  IF safe_quals # <<>>
             THEN <<Clause("qualifiers", "regexp", "r'" \o Join(safe_quals, "|") \o "'")>>
             ELSE <<>>
    ELSE <<>>

\* where_str: "1=1" AND type AND outcome AND qualifiers AND players AND teams
DynamicWhere(event_types, outcomes, qualifiers, teams, players) ==
    <<Clause("", "true", "")>>
    \o MembershipClause("type", event_types)
    \o OutcomeClause(outcomes)
    \o QualifierClause(qualifiers)
    \o MembershipClause("player", players)
    \o MembershipClause("effective_team", teams)

\* where_str.replace('effective_team', 'team')
ReplaceEffectiveTeam(where) ==
    [i \in 1..Len(where) |->
        IF where[i].col = "effective_team"
        THEN Clause("team", where[i].op, where[i].text)
        ELSE where[i]]

(***************************************************************************)
(* get_dynamic_ranking_query: the query it returns, as the parts that vary *)
(* with the parameters.  `block` names the filtered_events CTE chosen.     *)
(***************************************************************************)
GetDynamicRankingQuery(r) ==
    LET where_str == DynamicWhere(r.event_types, r.outcomes, r.qualifiers,
                                  r.teams, r.players)
    IN  [kind |-> "dynamic",
         subject |-> r.subject,
         block |-> IF r.use_related_player /\ r.subject = "Jogadores" THEN "related"
                   ELSE IF r.subject = "Equipes" THEN "equipes"
                   ELSE "jogadores",
         where |-> IF r.use_related_player /\ r.subject = "Jogadores"
                   THEN ReplaceEffectiveTeam(where_str)
                   ELSE where_str,
         where_den |-> <<>>,
         perspective |-> r.perspective]

(***************************************************************************)
(* The virtual relations.  Rows carry a `rid` that no query reads: it      *)
(* keeps two equal rows apart (UNION ALL and joins keep duplicates).       *)
(***************************************************************************)
YEARS_TO_QUERY == 2015..2026
CutoffYear == 2025

\* _build_schedule_union: one fragment per year, the timestamp column by year
ScheduleFragment(tbl, year) ==
    LET ts_col == IF year >= CutoffYear THEN "start_time" ELSE "date"
    IN  { [rid |-> s.rid,
           game_id |-> s.game_id,
           season |-> year,
           match_date |-> s[ts_col],
           home_team |-> s.home_team,
           away_team |-> s.away_team,
           home_score |-> s.home_score,
           away_score |-> s.away_score,
           status |-> s.status] : s \in tbl[year] }

BuildScheduleUnion(tbl) == UNION { ScheduleFragment(tbl, year) : year \in YEARS_TO_QUERY }

\* _build_events_union: the shared columns of each year's table, plus season
BuildEventsUnion(tbl) ==
    UNION { { e @@ [season |-> year] : e \in tbl[year] } : year \in YEARS_TO_QUERY }

\* match_metadata of get_dynamic_ranking_query
MatchMetadata(all_schedule) ==
    { [rid |-> s.rid, game_id |-> s.game_id, start_time |-> s.match_date,
       season |-> s.season, home_team |-> s.home_team, away_team |-> s.away_team,
       home_score |-> s.home_score, away_score |-> s.away_score] : s \in all_schedule }

\* a = b in SQL is TRUE only between two values that are not NULL
SqlEq(a, b) == a # NULL /\ b # NULL /\ a = b

\* existing_goals without its WHERE type = 'Goal'
ExistingGoalsAnyType(all_events) ==
    { [game_id |-> k[1], team |-> k[2],
       goals |-> Cardinality({ e \in all_events : e.game_id = k[1] /\ e.team = k[2] })]
      : k \in { <<e.game_id, e.team>> : e \in all_events } }

\* existing_goals: recorded Goal events per (game_id, literal team)
ExistingGoals(all_events) ==
    LET goals == { e \in all_events : e.type = "Goal" }
    IN  { [game_id |-> k[1], team |-> k[2],
           goals |-> Cardinality({ e \in goals : e.game_id = k[1] /\ e.team = k[2] })]
          : k \in { <<e.game_id, e.team>> : e \in goals } }

\* IFNULL(eh.goals, 0) of the LEFT JOIN on game_id and team
JoinedGoals(existing_goals, game_id, team) ==
    LET hit == { g \in existing_goals : g.game_id = game_id /\ SqlEq(g.team, team) }
    IN  IF hit = {} THEN 0 ELSE (CHOOSE g \in hit : TRUE).goals

\* score - goals, NULL when the score is NULL
ScoreDiff(score, goals) == IF score = NULLNUM THEN NULLNUM ELSE score - goals

\* missing_goals: the matches where a score exceeds the recorded goals
MissingGoals(match_metadata, existing_goals) ==
    LET eh(m) == JoinedGoals(existing_goals, m.game_id, m.home_team)
        ea(m) == JoinedGoals(existing_goals, m.game_id, m.away_team)
    IN  { [rid |-> m.rid, game_id |-> m.game_id, season |-> m.season,
           home_team |-> m.home_team, away_team |-> m.away_team,
           home_diff |-> ScoreDiff(m.home_score, eh(m)),
           away_diff |-> ScoreDiff(m.away_score, ea(m))]
          : m \in { x \in match_metadata :
                      \/ x.home_score # NULLNUM /\ x.home_score > eh(x)
                      \/ x.away_score # NULLNUM /\ x.away_score > ea(x) } }

\* one row of ghost_events
GhostRow(mg, side, team, k) ==
    [rid |-> <<"ghost", mg.rid, side, k>>,
     game_id |-> mg.game_id,
     team |-> team,
     player |-> NULL,
     player_id |-> NULLNUM,
     type |-> "Goal",
     outcome_type |-> "Successful",
     qualifiers |-> "[]",
     expanded_minute |-> 90,
     period |-> "FullTime",
     x |-> 50, y |-> 50, end_x |-> 50, end_y |-> 50,
     is_shot |-> NULL,
     related_player_id |-> NULLNUM,
     season |-> mg.season]

\* GENERATE_ARRAY(1, diff - 1): one ghost too few
GhostIndexesShort(diff) == IF diff = NULLNUM \/ diff <= 0 THEN {} ELSE 1..(diff - 1)

\* UNNEST(GENERATE_ARRAY(1, diff)) WHERE diff > 0: 1..diff, nothing for NULL
GhostIndexes(diff) == IF diff = NULLNUM \/ diff <= 0 THEN {} ELSE 1..diff

\* ghost_events: home ghosts UNION ALL away ghosts
GhostEvents(missing_goals) ==
    UNION { { GhostRow(mg, "home", mg.home_team, k) : k \in GhostIndexes(mg.home_diff) }
            \cup
            { GhostRow(mg, "away", mg.away_team, k) : k \in GhostIndexes(mg.away_diff) }
          : mg \in missing_goals }

\* all_events_fixed
AllEventsFixed(all_events, ghost_events) == all_events \cup ghost_events

(***************************************************************************)
(* (?i)(Own\s*Goal|Gol\s*Contra) of get_dynamic_ranking_query: the two     *)
(* words in any letter case with any run of white space between them.      *)
(***************************************************************************)
Letters ==
    [c \in {"O", "W", "N", "G", "A", "L", "C", "T", "R"} |->
        CASE c = "O" -> "o" [] c = "W" -> "w" [] c = "N" -> "n" [] c = "G" -> "g"
          [] c = "A" -> "a" [] c = "L" -> "l" [] c = "C" -> "c" [] c = "T" -> "t"
          [] c = "R" -> "r"]

RECURSIVE Lower(_)
\* lower case of the letters the two words are made of
Lower(s) ==
    IF Len(s) = 0 THEN ""
    ELSE (IF CharAt(s, 1) \in DOMAIN Letters THEN Letters[CharAt(s, 1)] ELSE CharAt(s, 1))
         \o Lower(SubSeq(s, 2, Len(s)))

\* first\s*second somewhere in t
TwoWordsAt(t, first, second) ==
    \E i \in 1..Len(t) :
        /\ StartsAt(t, i, first)
        /\ \E k \in 0..Len(t) :
              /\ \A j \in (i + Len(first))..(i + Len(first) + k - 1) :
                    j <= Len(t) /\ CharAt(t, j) = " "
              /\ StartsAt(t, i + Len(first) + k, second)

OwnGoalRegexDynamic(qualifiers) ==
    \/ TwoWordsAt(Lower(qualifiers), "own", "goal")
    \/ TwoWordsAt(Lower(qualifiers), "gol", "contra")

\* the opponent of e.team in match m, e.team itself when it is neither side
SwapTeam(e, m) ==
    IF SqlEq(e.team, m.home_team) THEN m.away_team
    ELSE IF SqlEq(e.team, m.away_team) THEN m.home_team
    ELSE e.team

\* the swap without its e.type = 'Goal' condition
EffectiveTeamAnyType(e, m) ==
    IF e.qualifiers # NULL /\ OwnGoalRegexDynamic(e.qualifiers)
    THEN SwapTeam(e, m)
    ELSE e.team

\* effective_team_calculation of get_dynamic_ranking_query
EffectiveTeamDynamic(e, m) ==
    IF e.type = "Goal" /\ e.qualifiers # NULL /\ OwnGoalRegexDynamic(e.qualifiers)
    THEN SwapTeam(e, m)
    ELSE e.team

\* events_enhanced: all_events_fixed JOIN match_metadata ON game_id
EventsEnhanced(all_events_fixed, match_metadata) ==
    UNION { { e @@ [effective_team |-> EffectiveTeamDynamic(e, m), m_rid |-> m.rid]
              : m \in { x \in match_metadata : x.game_id = e.game_id } }
          : e \in all_events_fixed }

(***************************************************************************)
(* filtered_events and the final SELECT of get_dynamic_ranking_query.      *)
(***************************************************************************)
\* the Equipes block grouping by the literal team
FilteredEventsEquipesLiteral(events_enhanced, where) ==
    LET src == { x \in events_enhanced :
                    Admits(<<Clause("effective_team", "notnull", "")>> \o where, x) }
    IN  { [game_id |-> k[1], team |-> k[2],
           metric_count |-> Cardinality({ x \in src : x.game_id = k[1] /\ x.team = k[2] })]
          : k \in { <<x.game_id, x.team>> : x \in src } }

\* Equipes: WHERE effective_team IS NOT NULL AND where GROUP BY game_id, effective_team
FilteredEventsEquipes(events_enhanced, where) ==
    LET src == { x \in events_enhanced :
                    Admits(<<Clause("effective_team", "notnull", "")>> \o where, x) }
    IN  { [game_id |-> k[1], team |-> k[2],
           metric_count |-> Cardinality({ x \in src : x.game_id = k[1]
                                                     /\ x.effective_team = k[2] })]
          : k \in { <<x.game_id, x.effective_team>> : x \in src } }

\* Jogadores: WHERE player IS NOT NULL AND where GROUP BY game_id, player, team
FilteredEventsJogadores(events_enhanced, where) ==
    LET src == { x \in events_enhanced :
                    Admits(<<Clause("player", "notnull", "")>> \o where, x) }
    IN  { [game_id |-> k[1], player |-> k[2], team |-> k[3],
           metric_count |-> Cardinality({ x \in src : x.game_id = k[1]
                                                     /\ x.player = k[2]
                                                     /\ x.team = k[3] })]
          : k \in { <<x.game_id, x.player, x.team>> : x \in src } }

\* player_names: SELECT DISTINCT player_id, player FROM all_events WHERE player IS NOT NULL
PlayerNames(all_events) ==
    { [player_id |-> k[1], player |-> k[2]]
      : k \in { <<e.player_id, e.player>> : e \in { x \in all_events : x.player # NULL } } }

\* the related-player block joined on the id of the player of the event
FilteredEventsRelatedScorer(all_events, where) ==
    LET names == PlayerNames(all_events)
        src == { p \in { <<e, n>> : e \in all_events, n \in names } :
                    /\ p[1].related_player_id # NULLNUM
                    /\ p[2].player_id # NULLNUM
                    /\ p[1].player_id = p[2].player_id
                    /\ Admits(where, p[1]) }
    IN  { [game_id |-> k[1], player |-> k[2], team |-> k[3],
           metric_count |-> Cardinality({ p \in src : p[1].game_id = k[1]
                                                     /\ p[2].player = k[2]
                                                     /\ p[1].team = k[3] })]
          : k \in { <<p[1].game_id, p[2].player, p[1].team>> : p \in src } }

\* related-player block: all_events e JOIN player_names n ON e.related_player_id = n.player_id
FilteredEventsRelated(all_events, where) ==
    LET names == PlayerNames(all_events)
        src == { p \in { <<e, n>> : e \in all_events, n \in names } :
                    /\ p[1].related_player_id # NULLNUM
                    /\ p[2].player_id # NULLNUM
                    /\ p[1].related_player_id = p[2].player_id
                    /\ Admits(where, p[1]) }
    IN  { [game_id |-> k[1], player |-> k[2], team |-> k[3],
           metric_count |-> Cardinality({ p \in src : p[1].game_id = k[1]
                                                     /\ p[2].player = k[2]
                                                     /\ p[1].team = k[3] })]
          : k \in { <<p[1].game_id, p[2].player, p[1].team>> : p \in src } }

\* in the related block `player` names a column of e and one of n
RelatedAmbiguous(where) == \E i \in 1..Len(where) : where[i].col = "player"

\* SELECT p.*, m.start_time as match_date, m.season
\* FROM filtered_events p JOIN match_metadata m ON p.game_id = m.game_id
FinalSelect(filtered_events, match_metadata) ==
    UNION { { p @@ [match_date |-> m.start_time, season |-> m.season, rid |-> m.rid]
              : m \in { x \in match_metadata : x.game_id = p.game_id } }
          : p \in filtered_events }

NoResult ==
    [status |-> "none", ghost_events |-> {}, events_enhanced |-> {},
     filtered_events |-> {}, rows |-> {}]

\* what the warehouse computes for the text of get_dynamic_ranking_query
RunDynamic(q, sched, evts) ==
    LET all_schedule == BuildScheduleUnion(sched)
        all_events == BuildEventsUnion(evts)
        match_metadata == MatchMetadata(all_schedule)
        ghost_events == GhostEvents(MissingGoals(match_metadata, ExistingGoals(all_events)))
        events_enhanced ==
            EventsEnhanced(AllEventsFixed(all_events, ghost_events), match_metadata)
        filtered_events ==
            IF q.block = "related" THEN FilteredEventsRelated(all_events, q.where)
            ELSE IF q.block = "equipes" THEN FilteredEventsEquipes(events_enhanced, q.where)
            ELSE FilteredEventsJogadores(events_enhanced, q.where)
    IN  IF WhereMalformed(q.where) \/ (q.block = "related" /\ RelatedAmbiguous(q.where))
        THEN [NoResult EXCEPT !.status = "error"]
        ELSE [status |-> "ok",
              ghost_events |-> ghost_events,
              events_enhanced |-> events_enhanced,
              filtered_events |-> filtered_events,
              rows |-> FinalSelect(filtered_events, match_metadata)]

(***************************************************************************)
(* Filter predicate of get_conversion_ranking_query: _build_filter_where,  *)
(* called once for the numerator and once for the denominator.             *)
(***************************************************************************)
BuildFilterWhere(etypes, outcomes, quals, teams, players) ==
    <<Clause("", "true", "")>>
    \o MembershipClause("type", etypes)
    \o OutcomeClause(outcomes)
    \o QualifierClause(quals)
    \o MembershipClause("player", players)
    \o MembershipClause("effective_team", teams)

GetConversionRankingQuery(r) ==
    [kind |-> "conversion",
     subject |-> r.subject,
     block |-> "conversion",
     where |-> BuildFilterWhere(r.event_types, r.outcomes, r.qualifiers,
                                r.teams, r.players),
     where_den |-> BuildFilterWhere(r.den_event_types, r.den_outcomes, r.den_qualifiers,
                                    r.teams, r.players),
     perspective |-> r.perspective]

\* match_metadata of get_conversion_ranking_query: no scores
ConversionMatchMetadata(all_schedule) ==
    { [rid |-> s.rid, game_id |-> s.game_id, start_time |-> s.match_date,
       season |-> s.season, home_team |-> s.home_team, away_team |-> s.away_team]
      : s \in all_schedule }

\* effective_team_calculation of get_conversion_ranking_query: r'OwnGoal'
EffectiveTeamConversion(e, m, perspective) ==
    LET own == e.type = "Goal" /\ e.qualifiers # NULL
               /\ RegexpContains(e.qualifiers, "OwnGoal")
    IN  IF perspective = "against"
        THEN (IF own THEN e.team ELSE SwapTeam(e, m))
        ELSE (IF own THEN SwapTeam(e, m) ELSE e.team)

\* events_enhanced of get_conversion_ranking_query: all_events JOIN match_metadata
ConversionEventsEnhanced(all_events, match_metadata, perspective) ==
    UNION { { e @@ [effective_team |-> EffectiveTeamConversion(e, m, perspective),
                    m_rid |-> m.rid]
              : m \in { x \in match_metadata : x.game_id = e.game_id } }
          : e \in all_events }

\* the columns _build_events_union selects, and the injected season
EventColumns ==
    <<"game_id", "team", "player", "player_id", "type", "outcome_type", "qualifiers",
      "expanded_minute", "period", "x", "y", "end_x", "end_y", "is_shot",
      "related_player_id", "season">>

\* SELECT e.*, e.*, effective_team: the columns of the conversion events_enhanced
ConversionEnhancedColumns == EventColumns \o EventColumns \o <<"effective_team">>

\* a name that two columns of the relation carry cannot be referenced
AmbiguousIn(cols, name) ==
    Cardinality({ i \in 1..Len(cols) : cols[i] = name }) > 1

\* cte_numerator and cte_denominator read game_id from events_enhanced
ConversionRejected == AmbiguousIn(ConversionEnhancedColumns, "game_id")

\* a FLOAT64: a quotient of integers, NULL, NaN or +inf
Quot(n, d) == [kind |-> "num", n |-> n, d |-> d]
FNull == [kind |-> "null", n |-> 0, d |-> 1]
FNaN == [kind |-> "nan", n |-> 0, d |-> 1]
FInf == [kind |-> "inf", n |-> 0, d |-> 1]

\* SAFE_DIVIDE(x, y): x / y, NULL where the division fails
SafeDivide(x, y) == IF y = 0 THEN FNull ELSE Quot(x, y)

\* pandas: Series / Series on int64 counts is IEEE division
PandasDiv(x, y) ==
    IF y # 0 THEN Quot(x, y)
    ELSE IF x = 0 THEN FNaN
    ELSE FInf

\* Series.fillna(0): NaN and None become 0, nothing else
FillNa0(v) == IF v.kind \in {"nan", "null"} THEN Quot(0, 1) ELSE v

\* cte_numerator / cte_denominator for Equipes:
\* WHERE effective_team IS NOT NULL AND where GROUP BY game_id, effective_team
ConversionCte(events_enhanced, where) ==
    LET src == { x \in events_enhanced :
                    Admits(<<Clause("effective_team", "notnull", "")>> \o where, x) }
    IN  { [game_id |-> k[1], team |-> k[2],
           cnt |-> Cardinality({ x \in src : x.game_id = k[1]
                                            /\ x.effective_team = k[2] })]
          : k \in { <<x.game_id, x.effective_team>> : x \in src } }

\* COALESCE(c.cnt, 0) of the side of the FULL OUTER JOIN that may be missing
CountOrZero(cte, game_id, team) ==
    LET hit == { c \in cte : c.game_id = game_id /\ c.team = team }
    IN  IF hit = {} THEN 0 ELSE (CHOOSE c \in hit : TRUE).cnt

\* cte_numerator n FULL OUTER JOIN cte_denominator d ON game_id AND team,
\* JOIN match_metadata m ON COALESCE(n.game_id, d.game_id) = m.game_id
ConversionFinalSelect(cte_numerator, cte_denominator, match_metadata) ==
    LET keys == { <<c.game_id, c.team>> : c \in cte_numerator \cup cte_denominator }
    IN  UNION { { [game_id |-> k[1], team |-> k[2],
                   match_date |-> m.start_time, season |-> m.season, rid |-> m.rid,
                   numerator |-> CountOrZero(cte_numerator, k[1], k[2]),
                   denominator |-> CountOrZero(cte_denominator, k[1], k[2]),
                   ratio |-> SafeDivide(CountOrZero(cte_numerator, k[1], k[2]),
                                        CountOrZero(cte_denominator, k[1], k[2]))]
                  : m \in { x \in match_metadata : x.game_id = k[1] } }
              : k \in keys }

\* Jogadores: SELECT game_id, player, team ... GROUP BY game_id, player,
\* effective_team selects a column that is neither grouped nor aggregated
UngroupedSelect(subject) ==
    LET group_cols == IF subject = "Jogadores" THEN <<"game_id", "player", "effective_team">>
                      ELSE <<"game_id", "effective_team">>
        select_cols == IF subject = "Jogadores" THEN <<"game_id", "player", "team">>
                       ELSE <<"game_id", "effective_team">>
    IN  \E i \in 1..Len(select_cols) :
            \A j \in 1..Len(group_cols) : group_cols[j] # select_cols[i]

\* what the warehouse computes for the text of get_conversion_ranking_query
RunConversion(q, sched, evts) ==
    LET all_schedule == BuildScheduleUnion(sched)
        all_events == BuildEventsUnion(evts)
        match_metadata == ConversionMatchMetadata(all_schedule)
        events_enhanced ==
            ConversionEventsEnhanced(all_events, match_metadata, q.perspective)
        rejected == \/ ConversionRejected \/ UngroupedSelect(q.subject)
                    \/ WhereMalformed(q.where) \/ WhereMalformed(q.where_den)
    IN  [status |-> IF rejected THEN "error" ELSE "ok",
         ghost_events |-> {},
         events_enhanced |-> events_enhanced,
         filtered_events |-> {},
         rows |-> IF rejected THEN {}
                  ELSE ConversionFinalSelect(ConversionCte(events_enhanced, q.where),
                                             ConversionCte(events_enhanced, q.where_den),
                                             match_metadata)]

(***************************************************************************)
(* The operations: the page builds a query from its request, the executor  *)
(* runs the text over the tables.                                          *)
(***************************************************************************)
\* the list the module binds to YEARS_TO_QUERY when it is imported
YearsList == [i \in 1..12 |-> 2014 + i]

\* the interpreter with the module imported and no builder called
NoCalls == [years |-> YearsList, args |-> <<>>, calls |-> <<>>, frames |-> <<>>]

\* the page before any frame is loaded
NoFrame == [counts |-> <<>>, raw |-> <<>>, agg |-> <<>>]

NoQuery ==
    [kind |-> "none", subject |-> "", block |-> "", where |-> <<>>,
     where_den |-> <<>>, perspective |-> ""]

\* load_dynamic_data, "Volume Total"
BuildDynamic ==
    /\ pc = "start"
    /\ sql' = GetDynamicRankingQuery(req)
    /\ pc' = "built"
    /\ UNCHANGED <<schedule_tbl, events_tbl, req, result, df, py>>

\* load_dynamic_data, conversion
BuildConversion ==
    /\ pc = "start"
    /\ sql' = GetConversionRankingQuery(req)
    /\ pc' = "built"
    /\ UNCHANGED <<schedule_tbl, events_tbl, req, result, df, py>>

\* client.query(query)
ExecuteQuery ==
    /\ pc = "built"
    /\ result' = IF sql.kind = "dynamic"
                 THEN RunDynamic(sql, schedule_tbl, events_tbl)
                 ELSE RunConversion(sql, schedule_tbl, events_tbl)
    /\ pc' = "done"
    /\ UNCHANGED <<schedule_tbl, events_tbl, req, sql, df, py>>

Next == BuildDynamic \/ BuildConversion \/ ExecuteQuery

(***************************************************************************)
(* Rows of the physical tables.                                            *)
(***************************************************************************)
ABSENT == 0 - 888888    \* the table has no such column

\* a schedule row: tables before 2025 have `date`, later ones `start_time`
ScheduleRow(n, year, game_id, day, home, away, home_score, away_score, status) ==
    [rid |-> n, game_id |-> game_id,
     date |-> IF year >= 2025 THEN ABSENT ELSE day,
     start_time |-> IF year >= 2025 THEN day ELSE ABSENT,
     home_team |-> home, away_team |-> away,
     home_score |-> home_score, away_score |-> away_score, status |-> status]

EventRow(n, game_id, team, player, player_id, type, outcome_type, qualifiers, related) ==
    [rid |-> <<"log", n, "", 0>>,
     game_id |-> game_id, team |-> team, player |-> player, player_id |-> player_id,
     type |-> type, outcome_type |-> outcome_type, qualifiers |-> qualifiers,
     expanded_minute |-> 10, period |-> "FirstHalf",
     x |-> 30, y |-> 40, end_x |-> 60, end_y |-> 40,
     is_shot |-> NULL, related_player_id |-> related]

\* the serialized qualifiers column: a list of {'type': {'displayName': tag}} objects
RECURSIVE TagObjects(_)
TagObjects(tags) ==
    IF Len(tags) = 0 THEN <<>>
    ELSE <<"{'type': {'displayName': '" \o tags[1] \o "'}, 'value': 0}">>
         \o TagObjects(Tail(tags))

Serialized(tags) == "[" \o Join(TagObjects(tags), ", ") \o "]"

\* a request of the ranking page
Request(subj, etypes, outs, quals, use_rel, teams, players, d_types, d_outs, d_quals) ==
    [subject |-> subj, event_types |-> etypes, outcomes |-> outs,
     qualifiers |-> quals, use_related_player |-> use_rel,
     teams |-> teams, players |-> players,
     den_event_types |-> d_types, den_outcomes |-> d_outs,
     den_qualifiers |-> d_quals, perspective |-> "pro"]

(***************************************************************************)
(* Spec: reconciliation.  Two matches in two seasons: every combination of *)
(* official scores (NULL included) for the first, not played or MaxScore   *)
(* goals a side for the second, and every log of up to MaxEvents events    *)
(* that are goals, own goals or passes of either side of either match.     *)
(***************************************************************************)
Scores == {NULLNUM} \cup 0..MaxScore
OtherScores == {NULLNUM, MaxScore}

ReconKinds ==
    LET games == <<100, 101>>
        teams == <<"A", "B">>
        shapes == << <<"Goal", Serialized(<<>>)>>,
                     <<"Goal", Serialized(<<"OwnGoal">>)>>,
                     <<"Pass", Serialized(<<"OwnGoal">>)>> >>
    IN  [i \in 1..12 |->
            [game_id |-> games[((i - 1) \div 6) + 1],
             team |-> teams[(((i - 1) \div 3) % 2) + 1],
             type |-> shapes[((i - 1) % 3) + 1][1],
             qualifiers |-> shapes[((i - 1) % 3) + 1][2]]]

SeasonOf(game_id) == IF game_id = 100 THEN 2024 ELSE 2025

ReconEvents(f) ==
    [y \in YEARS_TO_QUERY |->
        { EventRow(i, ReconKinds[f[i]].game_id, ReconKinds[f[i]].team, "P1", 1,
                   ReconKinds[f[i]].type, "Successful", ReconKinds[f[i]].qualifiers,
                   NULLNUM)
          : i \in { j \in DOMAIN f : SeasonOf(ReconKinds[f[j]].game_id) = y } }]

ReconSchedule(h1, a1, h2, a2) ==
    [y \in YEARS_TO_QUERY |->
        IF y = 2024 THEN { ScheduleRow(1, y, 100, 10, "A", "B", h1, a1, "Finished") }
        ELSE IF y = 2025 THEN { ScheduleRow(2, y, 101, 20, "B", "A", h2, a2, "2") }
        ELSE {}]

GoalRequest ==
    Request("Equipes", PyList(<<"Goal">>), PyStr("Todos"), PyStr("Todos (Qualquer)"),
            FALSE, PyNone, PyNone,
            PyList(<<"Goal", "Pass">>), PyList(<<>>), PyList(<<>>))

Init ==
    /\ \E h1 \in Scores, a1 \in Scores, h2 \in OtherScores, a2 \in OtherScores :
          schedule_tbl = ReconSchedule(h1, a1, h2, a2)
    /\ \E n \in 0..MaxEvents :
          \E f \in [1..n -> 1..Len(ReconKinds)] :
              /\ \A i \in 1..(n - 1) : f[i] <= f[i + 1]
              /\ events_tbl = ReconEvents(f)
    /\ req = GoalRequest
    /\ pc = "start"
    /\ sql = NoQuery
    /\ result = NoResult
    /\ df = NoFrame
    /\ py = NoCalls

Spec == Init /\ [][Next]_vars

(***************************************************************************)
(* What the claims speak of, read off the tables and the executor's        *)
(* relations.                                                              *)
(***************************************************************************)
Matches == UNION { schedule_tbl[y] : y \in YEARS_TO_QUERY }

Log == UNION { events_tbl[y] : y \in YEARS_TO_QUERY }

Sides == {"home", "away"}
TeamOf(m, side) == IF side = "home" THEN m.home_team ELSE m.away_team
ScoreOf(m, side) == IF side = "home" THEN m.home_score ELSE m.away_score

\* recorded Goal events of literal team t in game g
Recorded(g, t) ==
    Cardinality({ e \in Log : e.game_id = g /\ e.type = "Goal" /\ e.team = t })

\* ghost rows injected for team t in game g
Injected(g, t) ==
    Cardinality({ x \in result.ghost_events : x.game_id = g /\ x.team = t })

\* the event carries the OwnGoal tag
OwnGoalTagged(e) == e.qualifiers # NULL /\ Contains(e.qualifiers, "'displayName': 'OwnGoal'")

DynamicDone == pc = "done" /\ sql.kind = "dynamic" /\ result.status = "ok"
ConversionDone == pc = "done" /\ sql.kind = "conversion"

\* C1: for every match and side the number of ghost Goal rows equals
\* max(0, official score - recorded goals of that literal team), and is 0
\* when the score is NULL.
C1_GhostCount ==
    DynamicDone =>
        \A m \in Matches : \A side \in Sides :
            Injected(m.game_id, TeamOf(m, side)) =
                IF ScoreOf(m, side) = NULLNUM THEN 0
                ELSE Max(0, ScoreOf(m, side) - Recorded(m.game_id, TeamOf(m, side)))

\* a run that injects for one side, meets an over-recorded side and a NULL score
C1_Witness ==
    /\ DynamicDone
    /\ \E m \in Matches, side \in Sides : Injected(m.game_id, TeamOf(m, side)) > 0
    /\ \E m \in Matches, side \in Sides :
          /\ ScoreOf(m, side) # NULLNUM
          /\ Recorded(m.game_id, TeamOf(m, side)) > ScoreOf(m, side)
    /\ \E m \in Matches, side \in Sides :
          /\ ScoreOf(m, side) = NULLNUM
          /\ Recorded(m.game_id, TeamOf(m, side)) > 0

\* C2 as stated: with both scores known, recorded + injected equals the
\* official score for every event log.
C2_SumEqualsScoreAlways ==
    DynamicDone =>
        \A m \in Matches : \A side \in Sides :
            (m.home_score # NULLNUM /\ m.away_score # NULLNUM) =>
                Recorded(m.game_id, TeamOf(m, side)) + Injected(m.game_id, TeamOf(m, side))
                    = ScoreOf(m, side)

\* C2 amended: with both scores known, recorded + injected equals the
\* official score when the log does not record more goals than the score,
\* and stays the recorded count (nothing injected) when it does.
C2_SumEqualsScoreUnlessExcess ==
    DynamicDone =>
        \A m \in Matches : \A side \in Sides :
            (m.home_score # NULLNUM /\ m.away_score # NULLNUM) =>
                Recorded(m.game_id, TeamOf(m, side)) + Injected(m.game_id, TeamOf(m, side))
                    = Max(ScoreOf(m, side), Recorded(m.game_id, TeamOf(m, side)))

\* a run over a match with both scores where one side is topped up and the
\* other has more recorded goals than its score
C2_Witness ==
    /\ DynamicDone
    /\ \E m \in Matches :
          /\ m.home_score # NULLNUM /\ m.away_score # NULLNUM
          /\ \E side \in Sides :
                /\ Injected(m.game_id, TeamOf(m, side)) > 0
                /\ Recorded(m.game_id, TeamOf(m, side)) > 0
    /\ \E m \in Matches :
          /\ m.home_score # NULLNUM /\ m.away_score # NULLNUM
          /\ \E side \in Sides :
                Recorded(m.game_id, TeamOf(m, side)) > ScoreOf(m, side)

\* sum of metric_count over the output rows of team t in game g
RECURSIVE SumCounts(_)
SumCounts(rows) ==
    IF rows = {} THEN 0
    ELSE LET r == CHOOSE x \in rows : TRUE
         IN  r.metric_count + SumCounts(rows \ {r})

TeamCount(g, t) == SumCounts({ r \in result.rows : r.game_id = g /\ r.team = t })

\* C3: in the team ranking of Goal events, for every match with known scores
\* in which no team has more recorded goals than its score, each team's
\* metric_count equals its official score.
C3_TeamGoalsEqualScore ==
    (DynamicDone /\ req = GoalRequest) =>
        \A m \in Matches :
            (/\ m.home_score # NULLNUM /\ m.away_score # NULLNUM
             /\ \A side \in Sides :
                   Recorded(m.game_id, TeamOf(m, side)) <= ScoreOf(m, side))
            => \A side \in Sides : TeamCount(m.game_id, TeamOf(m, side)) = ScoreOf(m, side)

\* the match an events_enhanced row was joined to
MatchOfRow(x) == CHOOSE m \in Matches : m.rid = x.m_rid

\* C4: in events_enhanced an own-goal Goal of one side of its match has the
\* other side as effective_team; every other event keeps its literal team.
C4_EffectiveTeam ==
    DynamicDone =>
        \A x \in result.events_enhanced :
            LET m == MatchOfRow(x)
            IN  IF x.type = "Goal" /\ OwnGoalTagged(x)
                THEN /\ x.team = m.home_team => x.effective_team = m.away_team
                     /\ x.team = m.away_team => x.effective_team = m.home_team
                ELSE x.effective_team = x.team

\* a run with an own goal of the home side, one of the away side, and with
\* a non-Goal event tagged OwnGoal or a ghost row
C4_Witness ==
    /\ DynamicDone
    /\ \E x \in result.events_enhanced :
          x.type = "Goal" /\ OwnGoalTagged(x) /\ x.team = MatchOfRow(x).home_team
    /\ \E x \in result.events_enhanced :
          \/ x.type = "Pass" /\ OwnGoalTagged(x)
          \/ x.rid[1] = "ghost"

\* C5: the event relation the conversion query aggregates holds the ghost
\* rows: for a side whose log under-reports its goals (no own goal in the
\* log), the Goal rows credited to it number its official score.
C5_ConversionCountsOfficialGoals ==
    (ConversionDone /\ \A e \in Log : ~OwnGoalTagged(e)) =>
        \A m \in Matches : \A side \in Sides :
            (/\ ScoreOf(m, side) # NULLNUM
             /\ Recorded(m.game_id, TeamOf(m, side)) < ScoreOf(m, side))
            => Cardinality({ x \in result.events_enhanced :
                                /\ x.game_id = m.game_id
                                /\ x.type = "Goal"
                                /\ x.effective_team = TeamOf(m, side) })
               = ScoreOf(m, side)

(***************************************************************************)
(* SpecFilter: the filter builders.  A fixed log of two matches with       *)
(* events of every shape the filters tell apart (NULL outcome, NULL        *)
(* qualifiers, NULL player, an own goal, a tag that has another tag as a   *)
(* prefix), and every team-ranking request that constrains up to           *)
(* MaxConstrained of the five dimensions, each in every form the functions *)
(* accept.                                                                 *)
(***************************************************************************)
MaxConstrained == 2

FilterSchedule ==
    [y \in YEARS_TO_QUERY |->
        IF y = 2024 THEN { ScheduleRow(1, y, 100, 10, "A", "B", 2, 1, "Finished") }
        ELSE IF y = 2025 THEN { ScheduleRow(2, y, 101, 20, "B", "A", NULLNUM, NULLNUM, "1") }
        ELSE {}]

FilterLog ==
    [y \in YEARS_TO_QUERY |->
        IF y = 2024
        THEN { EventRow(1, 100, "A", "P1", 1, "Goal", "Successful",
                        Serialized(<<"Head">>), NULLNUM),
               EventRow(2, 100, "A", "P1", 1, "Pass", "Successful",
                        Serialized(<<"Cross">>), 2),
               EventRow(3, 100, "A", "P2", 2, "Pass", "Unsuccessful",
                        Serialized(<<"Cross", "Head">>), NULLNUM),
               EventRow(4, 100, "B", "P3", 3, "Pass", "Successful",
                        Serialized(<<"HeadPass">>), NULLNUM),
               EventRow(5, 100, "B", "P3", 3, "Goal", "Successful",
                        Serialized(<<"OwnGoal">>), NULLNUM),
               EventRow(6, 100, "B", "Marcos Todos", 4, "Tackle", NULL, NULL, NULLNUM),
               EventRow(7, 100, "A", NULL, NULLNUM, "FormationSet", "Successful",
                        Serialized(<<>>), NULLNUM) }
        ELSE IF y = 2025
        THEN { EventRow(8, 101, "B", "P3", 3, "Pass", "Unsuccessful",
                        Serialized(<<>>), NULLNUM),
               EventRow(9, 101, "A", "P1", 1, "Goal", "Successful",
                        Serialized(<<"Cross">>), NULLNUM) }
        ELSE {}]

\* the forms of each parameter: None, the sentinel, empty, a string, lists
TypeForms ==
    { PyNone, PyStr("Todos"), PyList(<<>>), PyStr(""), PyStr("Goal"),
      PyList(<<"Goal">>), PyList(<<"Goal", "Pass">>) }

OutcomeForms ==
    { PyNone, PyStr("Todos"), PyList(<<>>), PyStr("Sucesso"), PyList(<<"Sucesso">>),
      PyList(<<"Sucesso", "Falha">>) }

QualifierForms ==
    { PyNone, PyStr("Todos (Qualquer)"), PyList(<<>>), PyStr("Head"), PyList(<<"Head">>),
      PyList(<<"Cross", "Head">>), PyList(<<"He.d">>), PyList(<<"Head|Cross">>),
      PyList(<<"It's">>) }

TeamForms ==
    { PyNone, PyStr("Todos"), PyList(<<>>), PyStr("A"), PyList(<<"A">>),
      PyList(<<"A", "B">>) }

PlayerForms ==
    { PyNone, PyStr("Todos"), PyList(<<>>), PyStr("P1"), PyList(<<"P1", "P3">>),
      PyStr("Marcos Todos"), PyList(<<"Marcos Todos">>) }

\* what the page sends for a dimension the user left alone
PageDefault ==
    Request("Equipes", PyStr("Todos"), PyStr("Todos"), PyStr("Todos (Qualquer)"),
            FALSE, PyNone, PyNone,
            PyList(<<"Goal", "Pass">>), PyList(<<>>), PyNone)

Dims == {"event_types", "outcomes", "qualifiers", "teams", "players"}

InitFilter ==
    /\ schedule_tbl = FilterSchedule
    /\ events_tbl = FilterLog
    /\ \E ty \in TypeForms, ou \in OutcomeForms, qu \in QualifierForms :
       \E te \in TeamForms, pl \in PlayerForms :
          LET r == [PageDefault EXCEPT !.event_types = ty, !.outcomes = ou,
                                       !.qualifiers = qu, !.teams = te, !.players = pl]
          IN  /\ Cardinality({ d \in Dims : r[d] # PageDefault[d] }) <= MaxConstrained
              /\ req = r
    /\ pc = "start"
    /\ sql = NoQuery
    /\ result = NoResult
    /\ df = NoFrame
    /\ py = NoCalls

SpecFilter == InitFilter /\ [][Next]_vars

(***************************************************************************)
(* What the filter claims speak of.                                        *)
(***************************************************************************)
\* the column a dimension filters, and the sentinel that leaves it open
ColumnOf(d) ==
    IF d = "event_types" THEN "type"
    ELSE IF d = "outcomes" THEN "outcome_type"
    ELSE IF d = "qualifiers" THEN "qualifiers"
    ELSE IF d = "teams" THEN "effective_team"
    ELSE "player"

SentinelOf(d) == IF d = "qualifiers" THEN "Todos (Qualquer)" ELSE "Todos"

Unconstrained(d, v) == v = PyNone \/ v = PyList(<<>>) \/ v = PyStr(SentinelOf(d))

\* the clauses of a WHERE on one column
ClausesOn(where, col) == { i \in 1..Len(where) : where[i].col = col }

\* the WHERE gives a row the same verdict whatever that column holds
IgnoresColumn(where, col, rows) ==
    \A x \in rows : \A v \in {NULL, "zzz"} :
        Admits(where, [x EXCEPT ![col] = v]) = Admits(where, x)

\* C6: a dimension given as its sentinel, as None or as an empty collection
\* puts no predicate on its column, in the dynamic builder and in both calls
\* of _build_filter_where: the WHERE admits an event whatever that column
\* holds, NULL included.
C6_UnconstrainedAddsNothing ==
    (pc # "start") =>
        /\ \A d \in Dims :
              Unconstrained(d, req[d]) =>
                  /\ ClausesOn(sql.where, ColumnOf(d)) = {}
                  /\ IgnoresColumn(sql.where, ColumnOf(d), result.events_enhanced)
        /\ sql.kind = "conversion" =>
              /\ Unconstrained("outcomes", req.den_outcomes)
                    => ClausesOn(sql.where_den, "outcome_type") = {}
              /\ Unconstrained("qualifiers", req.den_qualifiers)
                    => ClausesOn(sql.where_den, "qualifiers") = {}
              /\ \A d \in {"teams", "players"} :
                    Unconstrained(d, req[d]) => ClausesOn(sql.where_den, ColumnOf(d)) = {}

\* a team ranking with every dimension open, one of them as an empty list:
\* every event of a known team is counted
C6_Witness ==
    /\ DynamicDone
    /\ req.subject = "Equipes"
    /\ \A d \in Dims : Unconstrained(d, req[d])
    /\ req.outcomes = PyList(<<>>) /\ req.teams = PyNone
    /\ req.event_types = PyStr("Todos")
    /\ \E x \in result.events_enhanced : x.outcome_type = NULL /\ x.qualifiers = NULL
    /\ SumCounts(result.rows) = Cardinality(result.events_enhanced)

\* C7: a dimension given as the single string s selects the same events as
\* the one-element list [s], for every (non-empty) string and every
\* dimension.
C7_StringEqualsSingleton ==
    DynamicDone =>
        \A d \in Dims :
            (req[d].kind = "str" /\ req[d].s # "") =>
                LET alt == GetDynamicRankingQuery([req EXCEPT ![d] = PyList(<<req[d].s>>)])
                IN  \A x \in result.events_enhanced :
                        Admits(sql.where, x) <=> Admits(alt.where, x)

\* the tags a request selects
SelectedTags ==
    LET l == SeqFilterNonEmpty(AsList(req.qualifiers))
    IN  { l[i] : i \in 1..Len(l) }

\* the serialized qualifiers hold an object whose displayName is the tag
Carries(x, tag) ==
    x.qualifiers # NULL /\ Contains(x.qualifiers, "{'type': {'displayName': '" \o tag \o "'}")

\* C8: with tags selected, an event passes the qualifier predicate if and
\* only if its qualifiers carry at least one of the selected tags.
C8_QualifierDisjunction ==
    (DynamicDone /\ ClausesOn(sql.where, "qualifiers") # {}
                 /\ SelectedTags \subseteq {"Head", "Cross"}) =>
        \A i \in ClausesOn(sql.where, "qualifiers") :
            \A x \in result.events_enhanced :
                EvalClause(sql.where[i], x) = "T"
                    <=> \E tag \in SelectedTags : Carries(x, tag)

\* texts a qualifier pattern is tried on
ProbeTexts ==
    { e.qualifiers : e \in { x \in Log : x.qualifiers # NULL } }
    \cup { Serialized(<<t>>) : t \in {"He.d", "Head|Cross", "It's", "Hexd"} }

\* C9: the qualifier predicate the builder writes is one well-formed string
\* literal whatever the tag text holds, and its pattern matches exactly the
\* texts that hold one of the tags literally.
C9_TagsEscaped ==
    (pc = "built") =>
        \A i \in ClausesOn(sql.where, "qualifiers") :
            /\ ~ClauseMalformed(sql.where[i])
            /\ \A t \in ProbeTexts :
                  RegexpContains(t, ClauseValues(sql.where[i]).vals[1])
                      <=> \E tag \in SelectedTags : Contains(t, tag)

(***************************************************************************)
(* SpecRank: grouping.  Two matches, the first won 1-0 by its home side,   *)
(* the second not played yet; every log of up to MaxEvents events by a     *)
(* player of either side (two players of different teams share a name, one *)
(* event kind has no player), as a goal, an own goal or a pass; a ranking  *)
(* of teams or of players, filtered or not by type, team and player.       *)
(***************************************************************************)
RankKinds ==
    LET games == <<100, 101>>
        whos == << <<"A", "P1", 1>>, <<"B", "P1", 5>>, <<"A", "P2", 2>>,
                   <<"A", NULL, NULLNUM>> >>
        shapes == << <<"Goal", Serialized(<<>>)>>,
                     <<"Goal", Serialized(<<"OwnGoal">>)>>,
                     <<"Pass", Serialized(<<>>)>> >>
    IN  [i \in 1..24 |->
            [game_id |-> games[((i - 1) \div 12) + 1],
             team |-> whos[(((i - 1) \div 3) % 4) + 1][1],
             player |-> whos[(((i - 1) \div 3) % 4) + 1][2],
             player_id |-> whos[(((i - 1) \div 3) % 4) + 1][3],
             type |-> shapes[((i - 1) % 3) + 1][1],
             qualifiers |-> shapes[((i - 1) % 3) + 1][2]]]

\* an event without a player is a pass
RankKindIds ==
    { i \in 1..Len(RankKinds) : RankKinds[i].player = NULL => RankKinds[i].type = "Pass" }

RankEvents(f) ==
    [y \in YEARS_TO_QUERY |->
        { EventRow(i, RankKinds[f[i]].game_id, RankKinds[f[i]].team,
                   RankKinds[f[i]].player, RankKinds[f[i]].player_id,
                   RankKinds[f[i]].type, "Successful", RankKinds[f[i]].qualifiers,
                   NULLNUM)
          : i \in { j \in DOMAIN f : SeasonOf(RankKinds[f[j]].game_id) = y } }]

RankSchedule ==
    [y \in YEARS_TO_QUERY |->
        IF y = 2024 THEN { ScheduleRow(1, y, 100, 10, "A", "B", 1, 0, "Finished") }
        ELSE IF y = 2025 THEN { ScheduleRow(2, y, 101, 20, "B", "A", NULLNUM, NULLNUM, "1") }
        ELSE {}]

InitRank ==
    /\ schedule_tbl = RankSchedule
    /\ \E n \in 0..MaxEvents :
          \E f \in [1..n -> RankKindIds] :
              /\ \A i \in 1..(n - 1) : f[i] <= f[i + 1]
              /\ events_tbl = RankEvents(f)
    /\ \E subj \in {"Equipes", "Jogadores"} :
       \E ty \in {PyStr("Todos"), PyList(<<"Goal">>)} :
       \E te \in {PyNone, PyList(<<"A">>)}, pl \in {PyNone, PyList(<<"P1">>)} :
          req = [PageDefault EXCEPT !.subject = subj, !.event_types = ty,
                                    !.teams = te, !.players = pl]
    /\ pc = "start"
    /\ sql = NoQuery
    /\ result = NoResult
    /\ df = NoFrame
    /\ py = NoCalls

SpecRank == InitRank /\ [][Next]_vars

\* the (match, subject) an event is attributed to, and the one a row is for
SubjectOf(x) ==
    IF req.subject = "Equipes" THEN <<x.game_id, x.effective_team>>
    ELSE <<x.game_id, x.player, x.team>>

RowSubject(r) ==
    IF req.subject = "Equipes" THEN <<r.game_id, r.team>>
    ELSE <<r.game_id, r.player, r.team>>

\* the events that pass the filters and have a subject
PostFilter ==
    { x \in result.events_enhanced :
         /\ Admits(sql.where, x)
         /\ IF req.subject = "Equipes" THEN x.effective_team # NULL ELSE x.player # NULL }

\* C10: the result has exactly one row for each (match, subject) that has a
\* post-filter event and no other row, and the row's metric_count is the
\* number of post-filter events of that subject in that match; a team
\* ranking attributes an event to its effective_team.
C10_OneRowPerMatchSubject ==
    DynamicDone =>
        /\ \A r1 \in result.rows, r2 \in result.rows :
              RowSubject(r1) = RowSubject(r2) => r1 = r2
        /\ { RowSubject(r) : r \in result.rows } = { SubjectOf(x) : x \in PostFilter }
        /\ \A r \in result.rows :
              r.metric_count = Cardinality({ x \in PostFilter : SubjectOf(x) = RowSubject(r) })

\* a team ranking where an own goal and a ghost goal share the row of the
\* side they count for, with a row in the other match too
C10_Witness ==
    /\ DynamicDone
    /\ req.subject = "Equipes"
    /\ \E x \in PostFilter, g \in PostFilter :
          /\ x.effective_team # x.team
          /\ g.rid[1] = "ghost"
          /\ \E r \in result.rows :
                RowSubject(r) = SubjectOf(x) /\ RowSubject(r) = SubjectOf(g)
                /\ r.metric_count = 2
    /\ \E r \in result.rows : r.game_id = 101

(***************************************************************************)
(* SpecAssist: the related-player ranking.  Players 1, 2 and 3 each have a *)
(* pass in the log; on top of it every log of up to MaxEvents events that  *)
(* are goals of P1 or P3 in either match, with no related player, with a   *)
(* team mate or an opponent as related player or with a related id that no *)
(* event carries, or a pass of player 2 under a second spelling.           *)
(***************************************************************************)
AssistBase ==
    { EventRow(11, 100, "A", "P1", 1, "Pass", "Successful", Serialized(<<>>), NULLNUM),
      EventRow(12, 100, "A", "P2", 2, "Pass", "Successful", Serialized(<<>>), NULLNUM),
      EventRow(13, 100, "B", "P3", 3, "Pass", "Successful", Serialized(<<>>), NULLNUM) }

AssistKinds ==
    LET games == <<100, 101>>
        scorers == << <<"A", "P1", 1>>, <<"B", "P3", 3>> >>
        related == << <<NULLNUM, 2, 3, 9>>, <<NULLNUM, 1, 2, 9>> >>
    IN  [i \in 1..17 |->
            IF i = 17
            THEN [game_id |-> 100, team |-> "A", player |-> "P. Two", player_id |-> 2,
                  type |-> "Pass", related |-> NULLNUM]
            ELSE [game_id |-> games[((i - 1) \div 8) + 1],
                  team |-> scorers[(((i - 1) \div 4) % 2) + 1][1],
                  player |-> scorers[(((i - 1) \div 4) % 2) + 1][2],
                  player_id |-> scorers[(((i - 1) \div 4) % 2) + 1][3],
                  type |-> "Goal",
                  related |-> related[(((i - 1) \div 4) % 2) + 1][((i - 1) % 4) + 1]]]

AssistEvents(f) ==
    [y \in YEARS_TO_QUERY |->
        (IF y = 2024 THEN AssistBase ELSE {}) \cup
        { EventRow(i, AssistKinds[f[i]].game_id, AssistKinds[f[i]].team,
                   AssistKinds[f[i]].player, AssistKinds[f[i]].player_id,
                   AssistKinds[f[i]].type, "Successful", Serialized(<<>>),
                   AssistKinds[f[i]].related)
          : i \in { j \in DOMAIN f : SeasonOf(AssistKinds[f[j]].game_id) = y } }]

AssistRequest ==
    [PageDefault EXCEPT !.subject = "Jogadores", !.event_types = PyList(<<"Goal">>),
                        !.use_related_player = TRUE]

InitAssist ==
    /\ schedule_tbl = RankSchedule
    /\ \E n \in 0..MaxEvents :
          \E f \in [1..n -> 1..Len(AssistKinds)] :
              /\ \A i \in 1..(n - 1) : f[i] <= f[i + 1]
              /\ events_tbl = AssistEvents(f)
    /\ req = AssistRequest
    /\ pc = "start"
    /\ sql = NoQuery
    /\ result = NoResult
    /\ df = NoFrame
    /\ py = NoCalls

SpecAssist == InitAssist /\ [][Next]_vars

\* the goals of the row's match and team whose related_player_id is the id
\* of a player the log names as the row's player
AssistedGoals(r) ==
    { e \in Log :
         /\ e.type = "Goal" /\ e.game_id = r.game_id /\ e.team = r.team
         /\ e.related_player_id # NULLNUM
         /\ \E n \in Log : n.player = r.player /\ n.player_id = e.related_player_id }

\* C11: in the related-player ranking of goals every row names a player
\* whose player_id is the related_player_id of the goals it counts, and it
\* counts exactly those goals: a goal adds nothing to its scorer's name and
\* a goal without related_player_id adds to no row.
C11_RowsNameRelatedPlayer ==
    (DynamicDone /\ req = AssistRequest) =>
        \A r \in result.rows :
            /\ AssistedGoals(r) # {}
            /\ r.metric_count = Cardinality(AssistedGoals(r))

\* a run with a goal credited to the related player and not to its scorer,
\* and a goal without related player that no row counts
C11_Witness ==
    /\ DynamicDone /\ req = AssistRequest
    /\ \E e \in Log : e.type = "Goal" /\ e.related_player_id = NULLNUM
    /\ \E r \in result.rows :
          /\ r.player = "P2" /\ r.metric_count = 1
          /\ \A e \in AssistedGoals(r) : e.player = "P1"
    /\ \A r \in result.rows : r.player # "P1"

(***************************************************************************)
(* SpecRatio: the conversion ratio.  The two places that divide the        *)
(* counts: the ratio column of the final SELECT of                         *)
(* get_conversion_ranking_query, and ratio_val of the ranking page over    *)
(* the rows it summed per subject.  Init draws the (numerator,             *)
(* denominator) counts of a subject in two matches.                        *)
(***************************************************************************)
MaxCount == 2

\* the final SELECT: COALESCE'd counts and SAFE_DIVIDE of them
SelectRatio ==
    /\ pc = "joined"
    /\ df' = [df EXCEPT !.raw =
                 [i \in 1..Len(df.counts) |->
                     [numerator |-> df.counts[i].numerator,
                      denominator |-> df.counts[i].denominator,
                      ratio |-> SafeDivide(df.counts[i].numerator,
                                           df.counts[i].denominator)]]]
    /\ pc' = "returned"
    /\ UNCHANGED <<schedule_tbl, events_tbl, req, sql, result, py>>

RECURSIVE SumField(_, _)
SumField(rows, field) ==
    IF Len(rows) = 0 THEN 0 ELSE rows[1][field] + SumField(Tail(rows), field)

\* df_agg: the sums of the subject's rows, then ratio_val
AggregateRatio ==
    /\ pc = "returned"
    /\ LET numerator == SumField(df.raw, "numerator")
           denominator == SumField(df.raw, "denominator")
       IN  df' = [df EXCEPT !.agg =
                     <<[numerator |-> numerator, denominator |-> denominator,
                        ratio_val |-> FillNa0(PandasDiv(numerator, denominator))]>>]
    /\ pc' = "aggregated"
    /\ UNCHANGED <<schedule_tbl, events_tbl, req, sql, result, py>>

NextRatio == SelectRatio \/ AggregateRatio

InitRatio ==
    /\ schedule_tbl = [y \in YEARS_TO_QUERY |-> {}]
    /\ events_tbl = [y \in YEARS_TO_QUERY |-> {}]
    /\ req = PageDefault
    /\ pc = "joined"
    /\ sql = NoQuery
    /\ result = NoResult
    /\ py = NoCalls
    /\ \E n1 \in 0..MaxCount, d1 \in 0..MaxCount, n2 \in 0..MaxCount, d2 \in 0..MaxCount :
          df = [NoFrame EXCEPT !.counts = <<[numerator |-> n1, denominator |-> d1],
                                            [numerator |-> n2, denominator |-> d2]>>]

SpecRatio == InitRatio /\ [][NextRatio]_vars

\* the value is 0 when the denominator is 0 and numerator/denominator otherwise
IsRatioOf(v, n, d) ==
    /\ v.kind = "num"
    /\ IF d = 0 THEN v.n = 0 ELSE v.n * d = n * v.d

\* C12: the ratio column of every returned row and ratio_val of every
\* aggregated row is 0 when the row's denominator is 0, whatever its
\* numerator, and numerator/denominator when the denominator is positive.
C12_RatioZeroOnZeroDenominator ==
    /\ \A i \in 1..Len(df.raw) :
          IsRatioOf(df.raw[i].ratio, df.raw[i].numerator, df.raw[i].denominator)
    /\ \A i \in 1..Len(df.agg) :
          IsRatioOf(df.agg[i].ratio_val, df.agg[i].numerator, df.agg[i].denominator)

\* the events of the conversion relation that pass a filter and have a subject
ConversionPassing(where) ==
    { x \in result.events_enhanced :
         /\ Admits(where, x)
         /\ IF req.subject = "Equipes" THEN x.effective_team # NULL ELSE x.player # NULL }

\* C13: every (match, subject) with an event under the numerator filter or
\* under the denominator filter has exactly one row in the result of the
\* conversion query, whose numerator and denominator are its numbers of
\* events passing the respective filter (0 where it has none).
C13_FullOuterJoin ==
    ConversionDone =>
        \A k \in { SubjectOf(x) : x \in ConversionPassing(sql.where)
                                        \cup ConversionPassing(sql.where_den) } :
            /\ Cardinality({ r \in result.rows : RowSubject(r) = k }) = 1
            /\ \A r \in { y \in result.rows : RowSubject(y) = k } :
                  /\ r.numerator = Cardinality({ x \in ConversionPassing(sql.where) :
                                                    SubjectOf(x) = k })
                  /\ r.denominator = Cardinality({ x \in ConversionPassing(sql.where_den) :
                                                      SubjectOf(x) = k })

\* the check of the ranking page before it loads a conversion ranking:
\* `if not num_types or not den_types` warns and stops
PageAccepts(r) == Truthy(r.event_types) /\ Truthy(r.den_event_types)

\* C14: get_conversion_ranking_query returns no SQL for a request whose
\* numerator or denominator event-type set is empty: a conversion query
\* exists only for requests with both sets non-empty.
C14_EmptySetsRejected ==
    sql.kind = "conversion" => PageAccepts(req)

(***************************************************************************)
(* SpecBuilders: MaxCalls invocations of the two ranking builders, by      *)
(* sessions that run at the same time.  A call advances in the steps of    *)
(* the function body; the steps of different calls interleave freely.      *)
(* Shared between the calls: the module global YEARS_TO_QUERY, and nothing *)
(* else; every call has its arguments and its own frame of locals.         *)
(***************************************************************************)
MaxCalls == 3

CallIds == 1..MaxCalls

\* locals kept in one place for all the calls
FrameShared(c) == 1

\* the locals of a call live in the frame of that call
FrameOf(c) == c

\* a loop over the global that consumes it
YearsAfterPop(years) == Tail(years)

\* `for year in YEARS_TO_QUERY` reads the list and leaves it as it is
YearsAfterRead(years) == years

EmptyFrame ==
    [years |-> <<>>, where_clauses |-> <<>>, team_in_clause |-> <<>>,
     where_num |-> <<>>, where_den |-> <<>>]

\* the SQL text, as the parts of it that vary: the query and the years of
\* the two unions
QueryText(q, years) == q @@ [years |-> years]

\* schedule_union = _build_schedule_union(...); events_union = _build_events_union(...)
BuildUnions(c) ==
    /\ py.calls[c].step = "idle"
    /\ py' = [py EXCEPT !.calls[c].step = "unions",
                        !.frames[FrameOf(c)].years = py.years,
                        !.years = YearsAfterRead(py.years)]

\* get_dynamic_ranking_query: where_clauses and team_in_clause
BuildWhereClauses(c) ==
    /\ py.calls[c].kind = "dynamic" /\ py.calls[c].step = "unions"
    /\ LET a == py.args[c]
       IN  py' = [py EXCEPT
                    !.calls[c].step = "where",
                    !.frames[FrameOf(c)].where_clauses =
                        <<Clause("", "true", "")>>
                        \o MembershipClause("type", a.event_types)
                        \o OutcomeClause(a.outcomes)
                        \o QualifierClause(a.qualifiers)
                        \o MembershipClause("player", a.players),
                    !.frames[FrameOf(c)].team_in_clause =
                        MembershipClause("effective_team", a.teams)]

\* get_conversion_ranking_query: where_num = _build_filter_where(...)
BuildWhereNum(c) ==
    /\ py.calls[c].kind = "conversion" /\ py.calls[c].step = "unions"
    /\ LET a == py.args[c]
       IN  py' = [py EXCEPT
                    !.calls[c].step = "where_num",
                    !.frames[FrameOf(c)].where_num =
                        BuildFilterWhere(a.event_types, a.outcomes, a.qualifiers,
                                         a.teams, a.players)]

\* get_conversion_ranking_query: where_den = _build_filter_where(...)
BuildWhereDen(c) ==
    /\ py.calls[c].kind = "conversion" /\ py.calls[c].step = "where_num"
    /\ LET a == py.args[c]
       IN  py' = [py EXCEPT
                    !.calls[c].step = "where",
                    !.frames[FrameOf(c)].where_den =
                        BuildFilterWhere(a.den_event_types, a.den_outcomes,
                                         a.den_qualifiers, a.teams, a.players)]

\* return f"""...""": the text from the locals of the frame
ReturnText(c) ==
    /\ py.calls[c].step = "where"
    /\ LET a == py.args[c]
           f == py.frames[FrameOf(c)]
           where_str == f.where_clauses \o f.team_in_clause
           related == a.use_related_player /\ a.subject = "Jogadores"
           q == IF py.calls[c].kind = "dynamic"
                THEN [kind |-> "dynamic", subject |-> a.subject,
                      block |-> IF related THEN "related"
                                ELSE IF a.subject = "Equipes" THEN "equipes"
                                ELSE "jogadores",
                      where |-> IF related THEN ReplaceEffectiveTeam(where_str)
                                ELSE where_str,
                      where_den |-> <<>>, perspective |-> a.perspective]
                ELSE [kind |-> "conversion", subject |-> a.subject,
                      block |-> "conversion", where |-> f.where_num,
                      where_den |-> f.where_den, perspective |-> a.perspective]
       IN  py' = [py EXCEPT !.calls[c].step = "returned",
                            !.calls[c].text = QueryText(q, f.years)]

BuilderStep(c) ==
    /\ \/ BuildUnions(c)
       \/ BuildWhereClauses(c)
       \/ BuildWhereNum(c)
       \/ BuildWhereDen(c)
       \/ ReturnText(c)
    /\ UNCHANGED <<schedule_tbl, events_tbl, req, pc, sql, result, df>>

NextBuilders == \E c \in CallIds : BuilderStep(c)

\* the two requests of the sessions: one gives a dimension as a string and
\* a team scope, the other is the related-player ranking of goals
ScopedRequest ==
    [PageDefault EXCEPT !.outcomes = PyStr("Sucesso"), !.teams = PyList(<<"A">>)]

InitBuilders ==
    /\ schedule_tbl = [y \in YEARS_TO_QUERY |-> {}]
    /\ events_tbl = [y \in YEARS_TO_QUERY |-> {}]
    /\ req = PageDefault
    /\ pc = "calls"
    /\ sql = NoQuery
    /\ result = NoResult
    /\ df = NoFrame
    /\ \E a \in [CallIds -> {ScopedRequest, AssistRequest}] :
       \E k \in [CallIds -> {"dynamic", "conversion"}] :
          py = [years |-> YearsList,
                args |-> a,
                calls |-> [c \in CallIds |->
                              [kind |-> k[c], step |-> "idle",
                               text |-> QueryText(NoQuery, <<>>)]],
                frames |-> [c \in CallIds |-> EmptyFrame]]

SpecBuilders == InitBuilders /\ [][NextBuilders]_vars

\* the text the builder returns for these arguments when it runs alone
TextAlone(kind, a) ==
    QueryText(IF kind = "dynamic" THEN GetDynamicRankingQuery(a)
              ELSE GetConversionRankingQuery(a), YearsList)

Returned(c) == py.calls[c].step = "returned"

\* C15: two calls of the same builder with identical parameters return
\* identical text, whatever the other calls did in between.
C15_SameParametersSameText ==
    \A c1 \in CallIds, c2 \in CallIds :
        (/\ Returned(c1) /\ Returned(c2)
         /\ py.calls[c1].kind = py.calls[c2].kind
         /\ py.args[c1] = py.args[c2])
        => py.calls[c1].text = py.calls[c2].text

\* two calls with the same parameters have returned, and a call of the
\* other builder with other parameters has returned as well
C15_Witness ==
    \E c1 \in CallIds, c2 \in CallIds, c3 \in CallIds :
        /\ c1 # c2
        /\ Returned(c1) /\ Returned(c2) /\ Returned(c3)
        /\ py.calls[c1].kind = py.calls[c2].kind /\ py.args[c1] = py.args[c2]
        /\ py.calls[c3].kind # py.calls[c1].kind /\ py.args[c3] # py.args[c1]
        /\ py.calls[c1].text.years = YearsList
        /\ Len(py.calls[c1].text.where) > 1

\* C17: under every interleaving a call returns the text it returns when
\* it runs alone, and no step changes YEARS_TO_QUERY or the objects passed
\* as arguments.
C17_NoSharedState ==
    /\ [](\A c \in CallIds :
             Returned(c) => py.calls[c].text = TextAlone(py.calls[c].kind, py.args[c]))
    /\ [][py'.years = py.years /\ py'.args = py.args]_vars

\* a call has returned while two calls with different parameters are both
\* in the middle of their bodies
C17_Witness ==
    \E c1 \in CallIds, c2 \in CallIds, c3 \in CallIds :
        /\ Returned(c1)
        /\ py.calls[c2].step \in {"unions", "where_num", "where"}
        /\ py.calls[c3].step \in {"unions", "where_num", "where"}
        /\ c2 # c3 /\ py.args[c2] # py.args[c3]
        /\ py.calls[c1].text = TextAlone(py.calls[c1].kind, py.args[c1])
        /\ py.calls[c1].text.block # ""


(***************************************************************************)
(* SpecCount: get_teams_match_count_query.  Three matches with distinct    *)
(* game_ids over two seasons, sides that may be NULL, kick-off instants    *)
(* (hours since day 0) that may be NULL, a team scope, a date range and a  *)
(* log that has events of one team only or none at all.                    *)
(***************************************************************************)
\* a date literal compared with a TIMESTAMP is the midnight that opens the day
Midnight(d) == d * 24

\* the date filter: match_date >= 'start' [AND match_date <= 'end']
DateClauses(date_range) ==
    IF Len(date_range) > 0
    THEN IF Len(date_range) > 1
         THEN <<[op |-> "ge", day |-> date_range[1]], [op |-> "le", day |-> date_range[2]]>>
         ELSE <<[op |-> "ge", day |-> date_range[1]]>>
    ELSE <<>>

\* a comparison with a NULL match_date is NULL, and WHERE drops the row
DateAdmits(dates, row) ==
    \A i \in 1..Len(dates) :
        /\ row.match_date # NULLNUM
        /\ IF dates[i].op = "ge" THEN row.match_date >= Midnight(dates[i].day)
           ELSE row.match_date <= Midnight(dates[i].day)

GetTeamsMatchCountQuery(teams, date_range) ==
    [kind |-> "match_count",
     where |-> <<Clause("team", "true", "")>> \o MembershipClause("team", teams),
     dates |-> DateClauses(date_range)]

\* a variant that unpivots the home side only
MatchesPerTeamHomeOnly(all_schedule) ==
    { [rid |-> <<s.rid, "home">>, season |-> s.season, team |-> s.home_team,
       game_id |-> s.game_id, match_date |-> s.match_date, status |-> s.status]
      : s \in { x \in all_schedule : x.home_team # NULL } }
\* matches_per_team: one row per side of a match that names a team
MatchesPerTeam(all_schedule) ==
    { [rid |-> <<s.rid, "home">>, season |-> s.season, team |-> s.home_team,
       game_id |-> s.game_id, match_date |-> s.match_date, status |-> s.status]
      : s \in { x \in all_schedule : x.home_team # NULL } }
    \cup
    { [rid |-> <<s.rid, "away">>, season |-> s.season, team |-> s.away_team,
       game_id |-> s.game_id, match_date |-> s.match_date, status |-> s.status]
      : s \in { x \in all_schedule : x.away_team # NULL } }

\* what the warehouse computes for the text of get_teams_match_count_query
RunMatchCount(q, sched) ==
    LET all_schedule == BuildScheduleUnion(sched)
        kept == { r \in MatchesPerTeam(all_schedule) :
                    Admits(q.where, r) /\ DateAdmits(q.dates, r) }
        groups == { <<r.season, r.team>> : r \in kept }
    IN  [NoResult EXCEPT
           !.status = IF WhereMalformed(q.where) THEN "rejected" ELSE "ok",
           !.rows = IF WhereMalformed(q.where) THEN {}
                    ELSE { [season |-> g[1], team |-> g[2],
                            total_games |-> Cardinality({ r.game_id : r \in
                                { x \in kept : x.season = g[1] /\ x.team = g[2] } })]
                           : g \in groups }]

\* 2_rankings_pro.py: matches_query = get_teams_match_count_query(..., q_teams, date_range)
BuildMatchCount ==
    /\ pc = "start"
    /\ sql' = GetTeamsMatchCountQuery(req.teams, req.date_range)
    /\ pc' = "built"
    /\ UNCHANGED <<schedule_tbl, events_tbl, req, result, df, py>>

\* df_matches = client.query(matches_query).to_dataframe()
ExecuteMatchCount ==
    /\ pc = "built"
    /\ result' = RunMatchCount(sql, schedule_tbl)
    /\ pc' = "done"
    /\ UNCHANGED <<schedule_tbl, events_tbl, req, sql, df, py>>

NextCount == BuildMatchCount \/ ExecuteMatchCount

CountSides == {"A", "B", NULL}

CountSchedule(h, a, y, t) ==
    [yr \in YEARS_TO_QUERY |->
        (IF yr = 2024
         THEN {ScheduleRow(1, 2024, 100, Midnight(10) + 15, h, a, 1, 0, "Finished")}
         ELSE {})
        \cup
        (IF yr = y
         THEN {ScheduleRow(2, y, 101, Midnight(12) + 20, "B", "A", NULLNUM, NULLNUM, "Scheduled")}
         ELSE {})
        \cup
        (IF yr = 2025
         THEN {ScheduleRow(3, 2025, 102, t, "A", "C", 2, 2, "Finished")}
         ELSE {})]

CountLogs ==
    { [yr \in YEARS_TO_QUERY |-> {}],
      [yr \in YEARS_TO_QUERY |->
          IF yr = 2024
          THEN {EventRow(1, 100, "B", "P3", 3, "Pass", "Successful", "[]", NULLNUM)}
          ELSE {}] }

CountScopes ==
    { PyNone, PyList(<<>>), PyStr("A"), PyList(<<"A", "C">>), PyStr("Todos"),
      PyList(<<"Todos", "A">>) }

CountPeriods == { <<>>, <<10>>, <<10, 20>>, <<11, 12>> }

InitCount ==
    /\ \E h \in CountSides, a \in CountSides, y \in {2024, 2025},
          t \in {Midnight(20), Midnight(20) + 16, NULLNUM} :
          schedule_tbl = CountSchedule(h, a, y, t)
    /\ events_tbl \in CountLogs
    /\ \E teams \in CountScopes, date_range \in CountPeriods :
          req = [teams |-> teams, date_range |-> date_range]
    /\ pc = "start"
    /\ sql = NoQuery
    /\ result = NoResult
    /\ df = NoFrame
    /\ py = NoCalls

SpecCount == InitCount /\ [][NextCount]_vars

\* the team scope as the page means it
TeamInScope(t) ==
    \/ ~Truthy(req.teams)
    \/ \E i \in 1..Len(AsList(req.teams)) : AsList(req.teams)[i] \in {t, "Todos"}

\* the matches of the schedule relation that the period of the request keeps
MatchesInPeriod ==
    { s \in BuildScheduleUnion(schedule_tbl) : DateAdmits(DateClauses(req.date_range), s) }

Participations(t, y) ==
    { s.game_id : s \in { x \in MatchesInPeriod :
                            x.season = y /\ (x.home_team = t \/ x.away_team = t) } }

TsColAfterCutoff(year) == IF year > CutoffYear THEN "start_time" ELSE "date"
\* ts_col: 'start_time' from 2025 on, 'date' before
TsCol(year) == IF year >= CutoffYear THEN "start_time" ELSE "date"

Column(expr, alias) == [expr |-> expr, alias |-> alias]

\* the f-string appended to subqueries for one year
ScheduleFragmentText(project_id, dataset_id, year) ==
    [select |-> << Column("game_id", "game_id"),
                   Column(ToString(year), "season"),
                   Column("CAST(" \o TsCol(year) \o " as TIMESTAMP)", "match_date"),
                   Column("home_team", "home_team"),
                   Column("away_team", "away_team"),
                   Column("home_score", "home_score"),
                   Column("away_score", "away_score"),
                   Column("CAST(status as STRING)", "status") >>,
     from |-> project_id \o "." \o dataset_id \o ".schedule_brasileirao_serie_a_"
              \o ToString(year)]

\* the first loop over YEARS_TO_QUERY: comments and nothing else
FirstLoopStep ==
    /\ py.step = "first_loop" /\ py.i <= Len(py.years)
    /\ py' = [py EXCEPT !.i = py.i + 1]

\* pass; subqueries = []
ResetSubqueries ==
    /\ py.step = "first_loop" /\ py.i > Len(py.years)
    /\ py' = [py EXCEPT !.step = "second_loop", !.i = 1, !.subqueries = <<>>]

\* the second loop: one fragment appended per year
AppendFragment ==
    /\ py.step = "second_loop" /\ py.i <= Len(py.years)
    /\ py' = [py EXCEPT
                !.i = py.i + 1,
                !.subqueries = Append(py.subqueries,
                    ScheduleFragmentText(py.project_id, py.dataset_id, py.years[py.i]))]

\* return " UNION ALL ".join(subqueries): the text as the list of its operands
JoinUnion ==
    /\ py.step = "second_loop" /\ py.i > Len(py.years)
    /\ py' = [py EXCEPT !.step = "returned", !.text = py.subqueries]

NextUnion ==
    /\ \/ FirstLoopStep
       \/ ResetSubqueries
       \/ AppendFragment
       \/ JoinUnion
    /\ UNCHANGED <<schedule_tbl, events_tbl, req, pc, sql, result, df>>

InitUnion ==
    /\ schedule_tbl = [y \in YEARS_TO_QUERY |-> {}]
    /\ events_tbl = [y \in YEARS_TO_QUERY |-> {}]
    /\ req = PageDefault
    /\ pc = "union"
    /\ sql = NoQuery
    /\ result = NoResult
    /\ df = NoFrame
    /\ \E project_id \in {"prodigy", "prodigy-dev", "analytics"}, dataset_id \in {"raw", "staging"} :
          py = [years |-> YearsList, project_id |-> project_id, dataset_id |-> dataset_id,
                step |-> "first_loop", i |-> 1, subqueries |-> <<>>, text |-> <<>>]

SpecUnion == InitUnion /\ [][NextUnion]_vars

CanonicalColumns ==
    <<"game_id", "season", "match_date", "home_team", "away_team",
      "home_score", "away_score", "status">>

Aliases(fragment) == [k \in 1..Len(fragment.select) |-> fragment.select[k].alias]

FragmentsOf(year) ==
    { k \in 1..Len(py.text) :
        py.text[k].from = py.project_id \o "." \o py.dataset_id
                          \o ".schedule_brasileirao_serie_a_" \o ToString(year) }

\* C18: in the returned union every known year has exactly one fragment and
\* the union has no other; the fragment reads match_date from 'date' before
\* 2025 and from 'start_time' from 2025 on, exposes game_id, season,
\* match_date, home_team, away_team, home_score, away_score, status in this
\* order, and its season is the year.
C18_OneCanonicalFragmentPerYear ==
    py.step = "returned" =>
        /\ Len(py.text) = Len(YearsList)
        /\ \A j \in 1..Len(YearsList) :
              LET year == YearsList[j]
              IN  /\ Cardinality(FragmentsOf(year)) = 1
                  /\ \A k \in FragmentsOf(year) :
                        /\ Aliases(py.text[k]) = CanonicalColumns
                        /\ py.text[k].select[2].expr = ToString(year)
                        /\ py.text[k].select[3].expr =
                              IF year < 2025 THEN "CAST(date as TIMESTAMP)"
                              ELSE "CAST(start_time as TIMESTAMP)"

C18_Witness ==
    /\ py.step = "returned"
    /\ Len(py.text) = 12
    /\ py.text[10].select[2].expr = "2024"
    /\ py.text[10].select[3].expr = "CAST(date as TIMESTAMP)"
    /\ py.text[11].select[2].expr = "2025"
    /\ py.text[11].select[3].expr = "CAST(start_time as TIMESTAMP)"


(***************************************************************************)
(* SpecOwn: the two effective-team rules over the same log.  One match, A  *)
(* at home to B, and up to MaxEvents goals or passes of either side whose  *)
(* qualifiers carry no tag or an own-goal tag in one of its spellings.     *)
(***************************************************************************)
OwnGoalSpellings == <<"OwnGoal", "Own Goal", "own goal", "Gol Contra">>

OwnKinds ==
    LET tags == <<Serialized(<<>>)>>
                \o [k \in 1..Len(OwnGoalSpellings) |-> Serialized(<<OwnGoalSpellings[k]>>)]
    IN  [i \in 1..20 |->
            [team |-> IF ((i - 1) \div 10) = 0 THEN "A" ELSE "B",
             type |-> IF (((i - 1) \div 5) % 2) = 0 THEN "Goal" ELSE "Pass",
             qualifiers |-> tags[((i - 1) % 5) + 1]]]

OwnEvents(f) ==
    [y \in YEARS_TO_QUERY |->
        IF y = 2024
        THEN { EventRow(i, 100, OwnKinds[f[i]].team, "P1", 1, OwnKinds[f[i]].type,
                        "Successful", OwnKinds[f[i]].qualifiers, NULLNUM)
               : i \in DOMAIN f }
        ELSE {}]

InitOwn ==
    /\ schedule_tbl = RankSchedule
    /\ \E n \in 0..MaxEvents :
          \E f \in [1..n -> 1..Len(OwnKinds)] :
              /\ \A i \in 1..(n - 1) : f[i] <= f[i + 1]
              /\ events_tbl = OwnEvents(f)
    /\ req = [PageDefault EXCEPT !.event_types = PyList(<<"Goal">>)]
    /\ pc = "start"
    /\ sql = NoQuery
    /\ result = NoResult
    /\ df = NoFrame
    /\ py = NoCalls

SpecOwn == InitOwn /\ [][Next]_vars

\* the effective team the other builder's query gives the same event
EffectiveTeamOther(x, m) ==
    IF sql.kind = "conversion" THEN EffectiveTeamDynamic(x, m)
    ELSE EffectiveTeamConversion(x, m, "pro")

\* C19: with perspective 'pro', every event of events_enhanced has the
\* effective_team that the other builder's query computes for the same event
\* and match, own goals tagged 'Own Goal', 'own goal' or 'Gol Contra' included.
C19_SameEffectiveTeam ==
    (pc = "done" /\ sql.perspective = "pro") =>
        \A x \in result.events_enhanced :
            \A m \in MatchMetadata(BuildScheduleUnion(schedule_tbl)) :
                m.game_id = x.game_id => x.effective_team = EffectiveTeamOther(x, m)


(***************************************************************************)
(* SpecGhost: ghost rows under every kind of request.  Match 100 ended     *)
(* 2-1 and match 101 1-0; the log has up to MaxEvents events (goals with   *)
(* and without tags, an own goal, a pass), so some side always has a       *)
(* deficit; requests vary the subject, the related-player mode, the event  *)
(* types and the qualifier filter.                                         *)
(***************************************************************************)
GhostSchedule ==
    [y \in YEARS_TO_QUERY |->
        IF y = 2024 THEN { ScheduleRow(1, y, 100, 10, "A", "B", 2, 1, "Finished") }
        ELSE IF y = 2025 THEN { ScheduleRow(2, y, 101, 20, "B", "A", 1, 0, "Finished") }
        ELSE {}]

GhostKinds ==
    << [game_id |-> 100, team |-> "A", player |-> "P1", player_id |-> 1,
        type |-> "Goal", qualifiers |-> Serialized(<<>>), related |-> 2],
       [game_id |-> 100, team |-> "A", player |-> "P1", player_id |-> 1,
        type |-> "Goal", qualifiers |-> Serialized(<<"Head">>), related |-> NULLNUM],
       [game_id |-> 100, team |-> "A", player |-> "P2", player_id |-> 2,
        type |-> "Goal", qualifiers |-> Serialized(<<"OwnGoal">>), related |-> NULLNUM],
       [game_id |-> 100, team |-> "A", player |-> "P2", player_id |-> 2,
        type |-> "Pass", qualifiers |-> Serialized(<<"Head">>), related |-> NULLNUM],
       [game_id |-> 100, team |-> "B", player |-> "P3", player_id |-> 3,
        type |-> "Goal", qualifiers |-> Serialized(<<>>), related |-> NULLNUM],
       [game_id |-> 101, team |-> "B", player |-> "P3", player_id |-> 3,
        type |-> "Goal", qualifiers |-> Serialized(<<"Head">>), related |-> NULLNUM] >>

GhostLog(f) ==
    [y \in YEARS_TO_QUERY |->
        { EventRow(i, GhostKinds[f[i]].game_id, GhostKinds[f[i]].team,
                   GhostKinds[f[i]].player, GhostKinds[f[i]].player_id,
                   GhostKinds[f[i]].type, "Successful", GhostKinds[f[i]].qualifiers,
                   GhostKinds[f[i]].related)
          : i \in { j \in DOMAIN f : SeasonOf(GhostKinds[f[j]].game_id) = y } }]

\* qualifier filters: none, tags of the page's list, and a tag that is the
\* bracket closing the serialized list
GhostQualifierForms ==
    { PyNone, PyList(<<"Head">>), PyList(<<"Head", "OwnGoal">>), PyList(<<"]">>) }

InitGhost ==
    /\ schedule_tbl = GhostSchedule
    /\ \E n \in 0..MaxEvents :
          \E f \in [1..n -> 1..Len(GhostKinds)] :
              /\ \A i \in 1..(n - 1) : f[i] <= f[i + 1]
              /\ events_tbl = GhostLog(f)
    /\ \E subj \in {"Equipes", "Jogadores"}, rel \in BOOLEAN :
       \E ty \in {PyStr("Todos"), PyList(<<"Goal">>)}, qu \in GhostQualifierForms :
          req = [PageDefault EXCEPT !.subject = subj, !.use_related_player = rel,
                                    !.event_types = ty, !.qualifiers = qu]
    /\ pc = "start"
    /\ sql = NoQuery
    /\ result = NoResult
    /\ df = NoFrame
    /\ py = NoCalls

SpecGhost == InitGhost /\ [][Next]_vars

IsGhost(x) == x.rid[1] = "ghost"

\* the row has the fixed Goal shape of a placeholder
GhostShaped(g) ==
    /\ g.type = "Goal" /\ g.outcome_type = "Successful"
    /\ g.qualifiers = Serialized(<<>>)
    /\ g.player = NULL /\ g.player_id = NULLNUM /\ g.related_player_id = NULLNUM
    /\ g.expanded_minute = 90
    /\ g.x = 50 /\ g.y = 50 /\ g.end_x = 50 /\ g.end_y = 50

\* the row belongs to a match of the schedule and to a side of it whose
\* official score exceeds its recorded goals
GhostOfDeficit(g) ==
    \E y \in YEARS_TO_QUERY : \E m \in schedule_tbl[y] : \E side \in Sides :
        /\ g.game_id = m.game_id /\ g.season = y
        /\ g.team = TeamOf(m, side)
        /\ ScoreOf(m, side) # NULLNUM
        /\ ScoreOf(m, side) > Recorded(m.game_id, TeamOf(m, side))

\* filtered_events as the same query computes it with the ghost rows removed
FilteredWithoutGhosts ==
    LET kept == { x \in result.events_enhanced : ~IsGhost(x) }
    IN  IF sql.block = "equipes" THEN FilteredEventsEquipes(kept, sql.where)
        ELSE IF sql.block = "jogadores" THEN FilteredEventsJogadores(kept, sql.where)
        ELSE result.filtered_events

GhostsCounted == result.filtered_events # FilteredWithoutGhosts

QualifierFiltered == ClausesOn(sql.where, "qualifiers") # {}

\* C20: every ghost row is a successful Goal with empty qualifiers, null
\* player, player_id and related_player_id, minute 90 and the fixed position,
\* with the game_id and season of its match and the team that has the
\* deficit; its effective_team is its team; and no ghost row is counted when
\* the subject is players or when the request has a qualifier filter.
C20_GhostRowsNeutral ==
    DynamicDone =>
        /\ \A g \in result.ghost_events : GhostShaped(g) /\ GhostOfDeficit(g)
        /\ \A x \in result.events_enhanced : IsGhost(x) => x.effective_team = x.team
        /\ (sql.subject = "Jogadores" \/ QualifierFiltered) => ~GhostsCounted

\* the same with the qualifier filter restricted to tags of the page's list:
\* this much holds in every run
GhostRowsNeutralForListedTags ==
    DynamicDone =>
        /\ \A g \in result.ghost_events : GhostShaped(g) /\ GhostOfDeficit(g)
        /\ \A x \in result.events_enhanced : IsGhost(x) => x.effective_team = x.team
        /\ (sql.subject = "Jogadores" \/ (QualifierFiltered /\ req.qualifiers # PyList(<<"]">>)))
              => ~GhostsCounted

\* a player ranking over a match with ghost rows on both sides
GhostRowsWitness ==
    /\ DynamicDone /\ sql.block = "jogadores"
    /\ \E g \in result.ghost_events : g.team = "A"
    /\ \E g \in result.ghost_events : g.team = "B"
    /\ result.rows # {}


(***************************************************************************)
(* SpecRelated: the related-player ranking under every event_types         *)
(* argument.  On top of the base passes, up to MaxEvents goals or passes   *)
(* of P1 (team A) or P3 (team B) in match 100, each with no related        *)
(* player or with a related team mate or opponent.                         *)
(***************************************************************************)
RelatedKinds ==
    LET whos == << <<"A", "P1", 1>>, <<"B", "P3", 3>> >>
        types == <<"Goal", "Pass">>
        related == <<NULLNUM, 2, 3>>
    IN  [i \in 1..12 |->
            [team |-> whos[((i - 1) \div 6) + 1][1],
             player |-> whos[((i - 1) \div 6) + 1][2],
             player_id |-> whos[((i - 1) \div 6) + 1][3],
             type |-> types[(((i - 1) \div 3) % 2) + 1],
             related |-> related[((i - 1) % 3) + 1]]]

RelatedEvents(f) ==
    [y \in YEARS_TO_QUERY |->
        IF y = 2024
        THEN AssistBase \cup
             { EventRow(i, 100, RelatedKinds[f[i]].team, RelatedKinds[f[i]].player,
                        RelatedKinds[f[i]].player_id, RelatedKinds[f[i]].type,
                        "Successful", Serialized(<<>>), RelatedKinds[f[i]].related)
               : i \in DOMAIN f }
        ELSE {}]

RelatedTypeForms == { PyStr("Todos"), PyList(<<"Goal">>), PyList(<<"Goal", "Pass">>) }

InitRelated ==
    /\ schedule_tbl = RankSchedule
    /\ \E n \in 0..MaxEvents :
          \E f \in [1..n -> 1..Len(RelatedKinds)] :
              /\ \A i \in 1..(n - 1) : f[i] <= f[i + 1]
              /\ events_tbl = RelatedEvents(f)
    /\ \E ty \in RelatedTypeForms : req = [AssistRequest EXCEPT !.event_types = ty]
    /\ pc = "start"
    /\ sql = NoQuery
    /\ result = NoResult
    /\ df = NoFrame
    /\ py = NoCalls

SpecRelated == InitRelated /\ [][Next]_vars

\* C21: in related-player mode, whatever the event_types argument, every
\* row counts Goal events only: its metric_count is the number of goals of
\* its match and team whose related_player_id names its player, so an event
\* of another type with a related_player_id adds to no row.
C21_OnlyGoalsCountForRelated ==
    (DynamicDone /\ sql.block = "related") =>
        \A r \in result.rows :
            r.metric_count = Cardinality(AssistedGoals(r))

\* the goals with a related_player_id that some event of the log names
NamedAssists ==
    { e \in Log :
         /\ e.type = "Goal" /\ e.related_player_id # NULLNUM
         /\ \E n \in Log : n.player # NULL /\ n.player_id = e.related_player_id }

\* C22: in the related-player ranking of goals, the metric_count of all the
\* output rows adds up to the number of goals whose related_player_id names
\* a player: a goal adds exactly 1, also when its related player_id appears
\* in the log under more than one player name.
C22_OnePerAssistedGoal ==
    (DynamicDone /\ req = AssistRequest) =>
        SumCounts(result.rows) = Cardinality(NamedAssists)


(***************************************************************************)
(* SpecDup: a game_id that may occur in the schedule of two seasons.  The  *)
(* 2024 table holds match 100; the 2025 table holds a row whose game_id is *)
(* 101 or, again, 100.  The log has up to MaxEvents events of match 100.   *)
(***************************************************************************)
DupSchedule(g) ==
    [y \in YEARS_TO_QUERY |->
        IF y = 2024 THEN { ScheduleRow(1, y, 100, 10, "A", "B", 1, 0, "Finished") }
        ELSE IF y = 2025 THEN { ScheduleRow(2, y, g, 20, "A", "B", 1, 0, "Finished") }
        ELSE {}]

DupKinds ==
    << [team |-> "A", player |-> "P1", player_id |-> 1, type |-> "Goal"],
       [team |-> "A", player |-> "P1", player_id |-> 1, type |-> "Pass"],
       [team |-> "A", player |-> "P2", player_id |-> 2, type |-> "Pass"],
       [team |-> "B", player |-> "P3", player_id |-> 3, type |-> "Goal"],
       [team |-> "B", player |-> "P3", player_id |-> 3, type |-> "Pass"] >>

DupEvents(f) ==
    [y \in YEARS_TO_QUERY |->
        IF y = 2024
        THEN { EventRow(i, 100, DupKinds[f[i]].team, DupKinds[f[i]].player,
                        DupKinds[f[i]].player_id, DupKinds[f[i]].type, "Successful",
                        Serialized(<<>>), NULLNUM)
               : i \in DOMAIN f }
        ELSE {}]

InitDup ==
    /\ \E g \in {100, 101} : schedule_tbl = DupSchedule(g)
    /\ \E n \in 0..MaxEvents :
          \E f \in [1..n -> 1..Len(DupKinds)] :
              /\ \A i \in 1..(n - 1) : f[i] <= f[i + 1]
              /\ events_tbl = DupEvents(f)
    /\ \E subj \in {"Equipes", "Jogadores"}, ty \in {PyStr("Todos"), PyList(<<"Goal">>)} :
          req = [PageDefault EXCEPT !.subject = subj, !.event_types = ty]
    /\ pc = "start"
    /\ sql = NoQuery
    /\ result = NoResult
    /\ df = NoFrame
    /\ py = NoCalls

SpecDup == InitDup /\ [][Next]_vars

\* the reconciled event relation: the log and the ghost rows
Reconciled == { e.rid : e \in Log } \cup { g.rid : g \in result.ghost_events }

\* C23: every event of the reconciled relation is in events_enhanced exactly
\* once (all its matches are in the schedule here) and every (match,
\* subject) group has exactly one output row, also when a game_id occurs
\* in the schedule of two seasons.
C23_JoinsKeepOneRow ==
    DynamicDone =>
        /\ \A rid \in Reconciled :
              Cardinality({ x \in result.events_enhanced : x.rid = rid }) = 1
        /\ \A r1 \in result.rows, r2 \in result.rows :
              RowSubject(r1) = RowSubject(r2) => r1 = r2


\* the teams a non-empty team scope names
ScopeTeams == { AsList(req.teams)[i] : i \in 1..Len(AsList(req.teams)) }

\* C24: with a non-empty team scope every output row of
\* get_dynamic_ranking_query has a team of the scope in its team column,
\* for team rankings and player rankings alike, own goals included.
C24_RowsWithinTeamScope ==
    (DynamicDone /\ Truthy(req.teams) /\ ~PyIn("Todos", req.teams)) =>
        \A r \in result.rows : r.team \in ScopeTeams


(***************************************************************************)
(* SpecStats: get_match_stats_query and the aggregation of 2_equipes.py.   *)
(* Two matches of season 2024 between A and B, the first with every        *)
(* combination of scores up to MaxScore or not played, and a log with no   *)
(* event, passes of A, or passes of both sides.                            *)
(***************************************************************************)
IfNull(v, d) == IF v = NULLNUM THEN d ELSE v

\* match_teams: the home branch, the away branch, and the away branch again
MatchTeams(match_metadata) ==
    { [rid |-> <<m.rid, 1>>, game_id |-> m.game_id, match_date |-> m.start_time,
       season |-> m.season, team |-> m.home_team,
       goals_for |-> IfNull(m.home_score, 0), goals_against |-> IfNull(m.away_score, 0),
       side |-> "Mandante"] : m \in match_metadata }
    \cup
    { [rid |-> <<m.rid, b>>, game_id |-> m.game_id, match_date |-> m.start_time,
       season |-> m.season, team |-> m.away_team,
       goals_for |-> IfNull(m.away_score, 0), goals_against |-> IfNull(m.home_score, 0),
       side |-> "Visitante"] : m \in match_metadata, b \in {2, 3} }

\* event_stats: counts per (game_id, team) of all_events
EventStats(all_events) ==
    { [match_id |-> k[1], team |-> k[2],
       total_passes |-> Cardinality({ e \in all_events :
            e.game_id = k[1] /\ e.team = k[2] /\ e.type = "Pass" }),
       successful_passes |-> Cardinality({ e \in all_events :
            /\ e.game_id = k[1] /\ e.team = k[2] /\ e.type = "Pass"
            /\ e.outcome_type = "Successful" })]
      : k \in { <<e.game_id, e.team>> : e \in all_events } }

\* what the warehouse computes for the text of get_match_stats_query:
\* match_teams t LEFT JOIN event_stats e ON t.game_id = e.match_id AND t.team = e.team
RunMatchStats(sched, evts) ==
    LET match_metadata == MatchMetadata(BuildScheduleUnion(sched))
        event_stats == EventStats(BuildEventsUnion(evts))
        joined(t) == { e \in event_stats : e.match_id = t.game_id /\ SqlEq(t.team, e.team) }
        row(t, passes, good) ==
            [rid |-> t.rid, match_id |-> t.game_id, match_date |-> t.match_date,
             season |-> t.season, team |-> t.team, goals_for |-> t.goals_for,
             goals_against |-> t.goals_against,
             total_passes |-> passes, successful_passes |-> good]
    IN  UNION { IF joined(t) = {} THEN { row(t, 0, 0) }
                ELSE { row(t, e.total_passes, e.successful_passes) : e \in joined(t) }
              : t \in MatchTeams(match_metadata) }

\* load_data of 2_equipes.py: the query text
BuildMatchStats ==
    /\ pc = "start"
    /\ sql' = [NoQuery EXCEPT !.kind = "match_stats"]
    /\ pc' = "built"
    /\ UNCHANGED <<schedule_tbl, events_tbl, req, result, df, py>>

\* load_data of 2_equipes.py: the frame of the query
ExecuteMatchStats ==
    /\ pc = "built"
    /\ result' = [NoResult EXCEPT !.status = "ok",
                                  !.rows = RunMatchStats(schedule_tbl, events_tbl)]
    /\ pc' = "done"
    /\ UNCHANGED <<schedule_tbl, events_tbl, req, sql, df, py>>

RECURSIVE SumRows(_, _)
SumRows(rows, field) ==
    IF rows = {} THEN 0
    ELSE LET r == CHOOSE x \in rows : TRUE
         IN  r[field] + SumRows(rows \ {r}, field)

\* df_agg of 2_equipes.py: sums and nunique(match_id) per group
AggregateStats ==
    /\ pc = "done"
    /\ LET key(r) == IF req.mode = "season" THEN <<r.team, r.season>> ELSE <<r.team>>
           group(k) == { r \in result.rows : key(r) = k }
       IN  df' = [df EXCEPT !.agg =
                     { [key |-> k,
                        goals_for |-> SumRows(group(k), "goals_for"),
                        goals_against |-> SumRows(group(k), "goals_against"),
                        total_passes |-> SumRows(group(k), "total_passes"),
                        matches |-> Cardinality({ r.match_id : r \in group(k) })]
                       : k \in { key(r) : r \in result.rows } }]
    /\ pc' = "aggregated"
    /\ UNCHANGED <<schedule_tbl, events_tbl, req, sql, result, py>>

NextStats == BuildMatchStats \/ ExecuteMatchStats \/ AggregateStats

StatsSchedule(h, a) ==
    [y \in YEARS_TO_QUERY |->
        IF y = 2024
        THEN { ScheduleRow(1, y, 100, 10, "A", "B", h, a, "Finished"),
               ScheduleRow(2, y, 101, 20, "B", "A", 1, 0, "Finished") }
        ELSE {}]

StatsLogs ==
    { [y \in YEARS_TO_QUERY |-> {}],
      [y \in YEARS_TO_QUERY |->
          IF y = 2024
          THEN { EventRow(1, 100, "A", "P1", 1, "Pass", "Successful", "[]", NULLNUM),
                 EventRow(2, 100, "A", "P1", 1, "Pass", "Unsuccessful", "[]", NULLNUM) }
          ELSE {}],
      [y \in YEARS_TO_QUERY |->
          IF y = 2024
          THEN { EventRow(1, 100, "A", "P1", 1, "Pass", "Successful", "[]", NULLNUM),
                 EventRow(2, 100, "B", "P3", 3, "Pass", "Successful", "[]", NULLNUM),
                 EventRow(3, 101, "B", "P3", 3, "Pass", "Successful", "[]", NULLNUM) }
          ELSE {}] }

InitStats ==
    /\ \E h \in 0..MaxScore \cup {NULLNUM}, a \in 0..MaxScore \cup {NULLNUM} :
          schedule_tbl = StatsSchedule(h, a)
    /\ events_tbl \in StatsLogs
    /\ \E mode \in {"season", "general"} : req = [mode |-> mode]
    /\ pc = "start"
    /\ sql = NoQuery
    /\ result = NoResult
    /\ df = NoFrame
    /\ py = NoCalls

SpecStats == InitStats /\ [][NextStats]_vars

\* the goals the schedule gives team t over its matches
ScheduleGoalsFor(t) ==
    SumRows({ [rid |-> <<p[1].rid, p[2]>>, goals |-> IfNull(ScoreOf(p[1], p[2]), 0)]
              : p \in { q \in Matches \X Sides : TeamOf(q[1], q[2]) = t } }, "goals")

\* C25: get_match_stats_query returns exactly one row for the home team and
\* one for the away team of every schedule match, so the goals_for that the
\* team page sums for a team is the team's goals over its matches, each
\* match counted once.
C25_OneRowPerMatchTeam ==
    /\ (pc \in {"done", "aggregated"} /\ sql.kind = "match_stats") =>
          \A m \in Matches : \A side \in Sides :
              Cardinality({ r \in result.rows :
                  r.match_id = m.game_id /\ r.team = TeamOf(m, side) }) = 1
    /\ (pc = "aggregated" /\ sql.kind = "match_stats") =>
          \A g \in df.agg : g.goals_for = ScheduleGoalsFor(g.key[1])


(***************************************************************************)
(* SpecRecent: get_recent_matches_query.  Three matches of 2025, each with *)
(* a status among '1', '2' and 'Finished' and a home_score that is known   *)
(* or NULL, and a limit of one or five rows.                               *)
(***************************************************************************)
\* WHERE status = '2' OR status = 'Finished' AND home_score IS NOT NULL:
\* AND binds tighter than OR
RecentWhere(s) ==
    \/ s.status = "2"
    \/ (s.status = "Finished" /\ s.home_score # NULLNUM)

\* ORDER BY match_date DESC LIMIT n: any n of the rows such that no row left
\* out is later than a row kept
LatestRows(rows, n) ==
    { kept \in SUBSET rows :
        /\ Cardinality(kept) = (IF Cardinality(rows) < n THEN Cardinality(rows) ELSE n)
        /\ \A k \in kept, o \in rows \ kept : o.match_date <= k.match_date }

BuildRecentMatches ==
    /\ pc = "start"
    /\ sql' = [NoQuery EXCEPT !.kind = "recent_matches"]
    /\ pc' = "built"
    /\ UNCHANGED <<schedule_tbl, events_tbl, req, result, df, py>>

ExecuteRecentMatches ==
    /\ pc = "built"
    /\ \E kept \in LatestRows({ s \in BuildScheduleUnion(schedule_tbl) : RecentWhere(s) },
                              req.limit) :
          result' = [NoResult EXCEPT
                       !.status = "ok",
                       !.rows = { [match_id |-> s.game_id, match_date |-> s.match_date,
                                   home_team |-> s.home_team, away_team |-> s.away_team,
                                   home_score |-> s.home_score,
                                   away_score |-> s.away_score] : s \in kept }]
    /\ pc' = "done"
    /\ UNCHANGED <<schedule_tbl, events_tbl, req, sql, df, py>>

NextRecent == BuildRecentMatches \/ ExecuteRecentMatches

RecentStatuses == {"1", "2", "Finished"}

RecentSchedule(st, hs) ==
    [y \in YEARS_TO_QUERY |->
        IF y = 2025
        THEN { ScheduleRow(i, y, 100 + i, 10 * i, "A", "B", hs[i],
                           IF hs[i] = NULLNUM THEN NULLNUM ELSE 0, st[i]) : i \in 1..3 }
        ELSE {}]

InitRecent ==
    /\ \E st \in [1..3 -> RecentStatuses], hs \in [1..3 -> {NULLNUM, 1}] :
          schedule_tbl = RecentSchedule(st, hs)
    /\ events_tbl = [y \in YEARS_TO_QUERY |-> {}]
    /\ \E limit \in {1, 5} : req = [limit |-> limit]
    /\ pc = "start"
    /\ sql = NoQuery
    /\ result = NoResult
    /\ df = NoFrame
    /\ py = NoCalls

SpecRecent == InitRecent /\ [][NextRecent]_vars

\* C26: every match get_recent_matches_query returns has status '2' or
\* 'Finished' in the schedule and a home_score that is not NULL.
C26_RecentMatchesFinishedWithScore ==
    (pc = "done" /\ sql.kind = "recent_matches") =>
        \A r \in result.rows :
            /\ r.home_score # NULLNUM
            /\ \E m \in Matches : m.game_id = r.match_id /\ m.status \in {"2", "Finished"}


(***************************************************************************)
(* SpecCalls: a call of one public builder.  The body binds its locals,    *)
(* then the returned f-string evaluates its placeholders one after the     *)
(* other: a name that is neither a parameter, a local nor a module global  *)
(* raises NameError and no text is returned.                               *)
(***************************************************************************)
Builder(name, params, locals, placeholders) ==
    [name |-> name, params |-> params, locals |-> locals, placeholders |-> placeholders]

\* the public builders of queries.py: parameters, names the body assigns,
\* and the names the returned f-string interpolates
PublicBuilders ==
    << Builder("get_total_matches_query", {"project_id", "dataset_id"},
               {"schedule_union"}, <<"schedule_union">>),
       Builder("get_total_events_query", {"project_id", "dataset_id"},
               {"events_union"}, <<"events_union">>),
       Builder("get_recent_matches_query", {"project_id", "dataset_id", "limit"},
               {"schedule_union"}, <<"schedule_union", "limit">>),
       Builder("get_match_stats_query", {"project_id", "dataset_id"},
               {"schedule_union", "events_union", "re_key"},
               <<"schedule_union", "events_union", "re_key">>),
       Builder("get_players_by_team_query", {"project_id", "dataset_id", "team"},
               {"events_union"}, <<"events_union", "team">>),
       Builder("get_player_stats_query", {"project_id", "dataset_id", "year"},
               {}, <<"project_id", "dataset_id", "year">>),
       Builder("get_player_events_query", {"project_id", "dataset_id", "player"},
               {"events_union"}, <<"events_union", "player">>),
       Builder("get_player_rankings_query", {"project_id", "dataset_id"},
               {"schedule_union", "events_union", "re_key"},
               <<"schedule_union", "events_union", "re_assist", "re_key">>),
       Builder("get_dynamic_ranking_query",
               {"project_id", "dataset_id", "subject", "event_types", "outcomes",
                "qualifiers", "use_related_player", "teams", "players", "perspective"},
               {"schedule_union", "events_union", "where_clauses", "team_in_clause",
                "where_str", "group_cols", "select_cols", "join_on", "base_where",
                "extra_cte", "filtered_events_block", "effective_team_calculation"},
               <<"schedule_union", "events_union", "effective_team_calculation",
                 "extra_cte", "filtered_events_block", "join_on">>),
       Builder("get_conversion_ranking_query",
               {"project_id", "dataset_id", "subject", "num_event_types", "num_outcomes",
                "num_qualifiers", "den_event_types", "den_outcomes", "den_qualifiers",
                "teams", "players", "perspective"},
               {"schedule_union", "events_union", "where_num", "where_den", "group_cols",
                "select_cols", "base_where_sql", "effective_team_calculation"},
               <<"schedule_union", "events_union", "effective_team_calculation",
                 "select_cols", "base_where_sql", "where_num", "group_cols",
                 "where_den", "subject">>),
       Builder("get_teams_match_count_query",
               {"project_id", "dataset_id", "teams", "date_range"},
               {"schedule_union", "where_clauses", "final_where"},
               <<"schedule_union", "final_where">>),
       Builder("get_player_match_counts_query",
               {"project_id", "dataset_id", "teams", "players", "date_range"},
               {"events_union", "schedule_union", "where_clauses", "date_filter", "where_str"},
               <<"events_union", "schedule_union", "where_str", "date_filter">>),
       Builder("get_all_teams_query", {"project_id", "dataset_id"},
               {"schedule_union"}, <<"schedule_union">>),
       Builder("get_all_players_query", {"project_id", "dataset_id", "teams"},
               {"events_union", "where_clause"}, <<"events_union", "where_clause">>),
       Builder("get_clean_sheets_query",
               {"project_id", "dataset_id", "teams", "date_range"},
               {"schedule_union", "where_clauses", "schedule_cte", "teams_filter", "date_filter"},
               <<"schedule_cte", "teams_filter", "date_filter">>) >>

ModuleGlobals == {"YEARS_TO_QUERY", "re"}

\* the statements before the return: the parameters and the locals are bound
BindLocals ==
    /\ py.step = "called"
    /\ py' = [py EXCEPT !.step = "formatting", !.i = 1,
                        !.frame = PublicBuilders[py.builder].params
                                  \cup PublicBuilders[py.builder].locals]

\* the f-string evaluates its next placeholder
EvalPlaceholder ==
    /\ py.step = "formatting"
    /\ py.i <= Len(PublicBuilders[py.builder].placeholders)
    /\ LET name == PublicBuilders[py.builder].placeholders[py.i]
       IN  IF name \in py.frame \cup ModuleGlobals
           THEN py' = [py EXCEPT !.i = py.i + 1]
           ELSE py' = [py EXCEPT !.step = "raised", !.error = "NameError: " \o name]

\* every placeholder has a value: the text is returned
ReturnSql ==
    /\ py.step = "formatting"
    /\ py.i > Len(PublicBuilders[py.builder].placeholders)
    /\ py' = [py EXCEPT !.step = "returned"]

NextCalls ==
    /\ \/ BindLocals
       \/ EvalPlaceholder
       \/ ReturnSql
    /\ UNCHANGED <<schedule_tbl, events_tbl, req, pc, sql, result, df>>

InitCalls ==
    /\ schedule_tbl = [y \in YEARS_TO_QUERY |-> {}]
    /\ events_tbl = [y \in YEARS_TO_QUERY |-> {}]
    /\ req = PageDefault
    /\ pc = "call"
    /\ sql = NoQuery
    /\ result = NoResult
    /\ df = NoFrame
    /\ \E b \in 1..Len(PublicBuilders) :
       \E project_id \in {"prodigy", "prodigy-dev", "analytics"}, dataset_id \in {"raw", "staging"} :
          py = [builder |-> b, project_id |-> project_id, dataset_id |-> dataset_id,
                step |-> "called", i |-> 0, frame |-> {}, error |-> ""]

SpecCalls == InitCalls /\ [][NextCalls]_vars

\* C27: no call of a public builder fails while it builds its text; in
\* particular get_player_rankings_query does not.
C27_BuildersReturnText == py.step # "raised"


(***************************************************************************)
(* SpecColumns: name resolution of a generated query.  Each query lists    *)
(* the columns its match_metadata exposes (all_events and all_schedule     *)
(* expose the columns of the two unions) and the columns it reads from the *)
(* three virtual relations; the warehouse resolves the references one      *)
(* after the other and rejects the query at the first unknown name.        *)
(***************************************************************************)
Ref(relation, columns) == [k \in 1..Len(columns) |-> <<relation, columns[k]>>]

Query(name, match_metadata, refs) ==
    [name |-> name, match_metadata |-> match_metadata, refs |-> refs]

GeneratedQueries ==
    << Query("get_total_matches_query", <<>>,
             Ref("all_schedule", <<"game_id", "status">>)),
       Query("get_recent_matches_query", <<>>,
             Ref("all_schedule", <<"game_id", "match_date", "home_team", "away_team",
                                   "home_score", "away_score", "status">>)),
       Query("get_match_stats_query",
             <<"game_id", "match_date", "season", "home_team", "away_team",
               "home_score", "away_score">>,
             Ref("all_schedule", <<"game_id", "match_date", "season", "home_team",
                                   "away_team", "home_score", "away_score">>)
             \o Ref("match_metadata", <<"game_id", "match_date", "season", "home_team",
                                        "home_score", "away_score", "away_team">>)
             \o Ref("all_events", <<"game_id", "team", "type", "outcome_type", "is_shot",
                                    "related_player_id", "qualifiers">>)),
       Query("get_players_by_team_query", <<>>,
             Ref("all_events", <<"player", "team">>)),
       Query("get_player_events_query", <<>>,
             Ref("all_events", <<"game_id", "team", "player", "type", "outcome_type",
                                 "x", "y", "end_x", "end_y", "period", "minute",
                                 "second">>)),
       Query("get_dynamic_ranking_query",
             <<"game_id", "start_time", "season", "home_team", "away_team",
               "home_score", "away_score">>,
             Ref("all_schedule", <<"game_id", "match_date", "season", "home_team",
                                   "away_team", "home_score", "away_score">>)
             \o Ref("all_events", <<"game_id", "team", "type", "player_id", "player",
                                    "related_player_id">>)
             \o Ref("match_metadata", <<"game_id", "season", "home_team", "away_team",
                                        "home_score", "away_score", "start_time">>)),
       Query("get_conversion_ranking_query",
             <<"game_id", "start_time", "season", "home_team", "away_team">>,
             Ref("all_schedule", <<"game_id", "match_date", "season", "home_team",
                                   "away_team">>)
             \o Ref("all_events", <<"game_id", "type", "qualifiers", "team">>)
             \o Ref("match_metadata", <<"game_id", "home_team", "away_team",
                                        "start_time", "season">>)),
       Query("get_teams_match_count_query", <<>>,
             Ref("all_schedule", <<"season", "home_team", "game_id", "match_date",
                                   "status", "away_team">>)),
       Query("get_player_match_counts_query", <<"game_id", "match_date", "season">>,
             Ref("all_schedule", <<"game_id", "match_date", "season">>)
             \o Ref("all_events", <<"player", "team", "game_id">>)
             \o Ref("match_metadata", <<"season", "game_id", "match_date", "status">>)),
       Query("get_all_teams_query", <<>>,
             Ref("all_schedule", <<"home_team", "away_team">>)),
       Query("get_all_players_query", <<>>,
             Ref("all_events", <<"player", "team">>)),
       Query("get_clean_sheets_query", <<>>,
             Ref("all_schedule", <<"game_id", "match_date", "season", "home_team",
                                   "away_score", "away_team", "home_score">>)) >>

\* the columns of _build_schedule_union's fragments
ScheduleColumns ==
    <<"game_id", "season", "match_date", "home_team", "away_team",
      "home_score", "away_score", "status">>

Exposed(q, relation) ==
    LET cols == IF relation = "all_events" THEN EventColumns
                ELSE IF relation = "all_schedule" THEN ScheduleColumns
                ELSE q.match_metadata
    IN  { cols[k] : k \in 1..Len(cols) }

\* the next reference names a column of its relation
ResolveReference ==
    /\ py.step = "resolving"
    /\ py.i <= Len(GeneratedQueries[py.query].refs)
    /\ LET q == GeneratedQueries[py.query]
           ref == q.refs[py.i]
       IN  IF ref[2] \in Exposed(q, ref[1])
           THEN py' = [py EXCEPT !.i = py.i + 1]
           ELSE py' = [py EXCEPT !.step = "rejected",
                                 !.error = "Unrecognized name: " \o ref[2]]

\* every reference is resolved
AcceptQuery ==
    /\ py.step = "resolving"
    /\ py.i > Len(GeneratedQueries[py.query].refs)
    /\ py' = [py EXCEPT !.step = "accepted"]

NextColumns ==
    /\ \/ ResolveReference
       \/ AcceptQuery
    /\ UNCHANGED <<schedule_tbl, events_tbl, req, pc, sql, result, df>>

InitColumns ==
    /\ schedule_tbl = [y \in YEARS_TO_QUERY |-> {}]
    /\ events_tbl = [y \in YEARS_TO_QUERY |-> {}]
    /\ req = PageDefault
    /\ pc = "resolve"
    /\ sql = NoQuery
    /\ result = NoResult
    /\ df = NoFrame
    /\ \E k \in 1..Len(GeneratedQueries) :
       \E project_id \in {"prodigy", "prodigy-dev", "analytics"}, dataset_id \in {"raw", "staging"} :
          py = [query |-> k, project_id |-> project_id, dataset_id |-> dataset_id,
                step |-> "resolving", i |-> 1, error |-> ""]

SpecColumns == InitColumns /\ [][NextColumns]_vars

\* C28: every column a generated query reads from all_events, all_schedule
\* or match_metadata is a column that relation exposes, the reads of
\* get_player_events_query and get_player_match_counts_query included.
C28_ReferencedColumnsExist == py.step # "rejected"


(***************************************************************************)
(* SpecClean: get_clean_sheets_query.  Match 100 of 2024 with every        *)
(* combination of scores up to MaxScore, or not played (NULL scores);      *)
(* match 101 of 2025 played 1-0 or not played; a team scope and a period.  *)
(***************************************************************************)
GetCleanSheetsQuery(teams, date_range) ==
    [kind |-> "clean_sheets",
     where |-> MembershipClause("team", teams),
     dates |-> DateClauses(date_range)]

\* match_teams of get_clean_sheets_query: a team and what it conceded
CleanMatchTeams(all_schedule) ==
    { [rid |-> <<s.rid, "home">>, game_id |-> s.game_id, match_date |-> s.match_date,
       season |-> s.season, team |-> s.home_team,
       goals_against |-> IfNull(s.away_score, 0)]
      : s \in { x \in all_schedule : x.home_team # NULL } }
    \cup
    { [rid |-> <<s.rid, "away">>, game_id |-> s.game_id, match_date |-> s.match_date,
       season |-> s.season, team |-> s.away_team,
       goals_against |-> IfNull(s.home_score, 0)]
      : s \in { x \in all_schedule : x.away_team # NULL } }

\* WHERE goals_against = 0 [AND team ...] [AND match_date ...] AND match_date IS NOT NULL
\* GROUP BY team, season with COUNT(*)
RunCleanSheets(q, sched) ==
    LET kept == { r \in CleanMatchTeams(BuildScheduleUnion(sched)) :
                    /\ r.goals_against = 0
                    /\ Admits(q.where, r)
                    /\ DateAdmits(q.dates, r)
                    /\ r.match_date # NULLNUM }
    IN  [NoResult EXCEPT
           !.status = IF WhereMalformed(q.where) THEN "rejected" ELSE "ok",
           !.rows = IF WhereMalformed(q.where) THEN {}
                    ELSE { [team |-> g[1], season |-> g[2],
                            clean_sheets |-> Cardinality({ r \in kept :
                                r.team = g[1] /\ r.season = g[2] })]
                           : g \in { <<r.team, r.season>> : r \in kept } }]

BuildCleanSheets ==
    /\ pc = "start"
    /\ sql' = GetCleanSheetsQuery(req.teams, req.date_range)
    /\ pc' = "built"
    /\ UNCHANGED <<schedule_tbl, events_tbl, req, result, df, py>>

ExecuteCleanSheets ==
    /\ pc = "built"
    /\ result' = RunCleanSheets(sql, schedule_tbl)
    /\ pc' = "done"
    /\ UNCHANGED <<schedule_tbl, events_tbl, req, sql, df, py>>

NextClean == BuildCleanSheets \/ ExecuteCleanSheets

CleanSchedule(h, a, played) ==
    [y \in YEARS_TO_QUERY |->
        IF y = 2024
        THEN { ScheduleRow(1, y, 100, Midnight(10) + 15, "A", "B", h, a,
                           IF h = NULLNUM THEN "Scheduled" ELSE "Finished") }
        ELSE IF y = 2025
        THEN { ScheduleRow(2, y, 101, Midnight(12) + 20, "B", "A",
                           IF played THEN 1 ELSE NULLNUM, IF played THEN 0 ELSE NULLNUM,
                           IF played THEN "Finished" ELSE "Scheduled") }
        ELSE {}]

InitClean ==
    /\ \E h \in 0..MaxScore \cup {NULLNUM}, a \in 0..MaxScore \cup {NULLNUM}, played \in BOOLEAN :
          /\ (h = NULLNUM) = (a = NULLNUM)
          /\ schedule_tbl = CleanSchedule(h, a, played)
    /\ events_tbl = [y \in YEARS_TO_QUERY |-> {}]
    /\ \E teams \in {PyNone, PyList(<<"A">>), PyStr("B")}, date_range \in {<<>>, <<10>>, <<10, 20>>} :
          req = [teams |-> teams, date_range |-> date_range]
    /\ pc = "start"
    /\ sql = NoQuery
    /\ result = NoResult
    /\ df = NoFrame
    /\ py = NoCalls

SpecClean == InitClean /\ [][NextClean]_vars

\* the played matches of team t in season y in which the opponent scored 0
PlayedCleanSheets(t, y) ==
    { m \in schedule_tbl[y] : \E side \in Sides :
        /\ TeamOf(m, side) = t
        /\ m.home_score # NULLNUM /\ m.away_score # NULLNUM
        /\ ScoreOf(m, IF side = "home" THEN "away" ELSE "home") = 0 }

\* C29: a row of get_clean_sheets_query counts only played matches in which
\* the opponent scored 0: clean_sheets never exceeds the number of such
\* matches of the team in the season, so a match with NULL scores adds to
\* no team's count.
C29_OnlyPlayedMatchesCount ==
    (pc = "done" /\ sql.kind = "clean_sheets") =>
        \A r \in result.rows :
            r.clean_sheets <= Cardinality(PlayedCleanSheets(r.team, r.season))


(***************************************************************************)
(* SpecPage: the team ranking page, from load_dynamic_data to the matches  *)
(* column.  Two seasons, three matches of A: a first one on day 10, a      *)
(* second one whose day and kick-off hour vary, and one of the next        *)
(* season.  The log has up to MaxEvents passes of either side, the request *)
(* counts passes, and the date range is one the date_input can return.     *)
(***************************************************************************)
\* pd.to_datetime(match_date).dt.date: the day of an instant in hours
DateOf(t) == IF t = NULLNUM THEN NULLNUM ELSE t \div 24

\* 4.1: start_date <= match_date [<= end_date], on dates
PageDateMask(date_range, row) ==
    IF Len(date_range) = 2
    THEN row.match_date >= date_range[1] /\ row.match_date <= date_range[2]
    ELSE IF Len(date_range) = 1
    THEN row.match_date >= date_range[1]
    ELSE TRUE

\* 4.2 for Equipes: ["team", "season"] or ["team"]; a group without "season" has none
GroupKey(aggregation_mode, row) ==
    IF aggregation_mode = "Por Temporada" THEN <<row.team, row.season>>
    ELSE <<row.team, ABSENT>>

NoPage == [raw |-> {}, filtered |-> {}, agg |-> {}, matches |-> {}]

\* load_dynamic_data and the normalisation of match_date and match_id
LoadDynamicData ==
    /\ pc = "start"
    /\ sql' = GetDynamicRankingQuery(req.query)
    /\ result' = RunDynamic(GetDynamicRankingQuery(req.query), schedule_tbl, events_tbl)
    /\ df' = [NoPage EXCEPT
                !.raw = { [rid |-> <<r.rid, r.team>>, match_id |-> r.game_id,
                           team |-> r.team, season |-> r.season,
                           metric_count |-> r.metric_count,
                           match_date |-> DateOf(r.match_date)]
                          : r \in RunDynamic(GetDynamicRankingQuery(req.query),
                                             schedule_tbl, events_tbl).rows }]
    /\ pc' = "loaded"
    /\ UNCHANGED <<schedule_tbl, events_tbl, req, py>>

\* 4.1 and 4.2: the date mask, then groupby(groupby_cols) sum and nunique
FilterAndGroup ==
    /\ pc = "loaded"
    /\ LET df_filtered == { r \in df.raw : PageDateMask(req.date_range, r) }
           key(r) == GroupKey(req.aggregation_mode, r)
           group(k) == { r \in df_filtered : key(r) = k }
       IN  df' = [df EXCEPT
                    !.filtered = df_filtered,
                    !.agg = { [team |-> k[1], season |-> k[2],
                               metric_count |-> SumRows(group(k), "metric_count"),
                               matches_with_event |->
                                   Cardinality({ r.match_id : r \in group(k) })]
                              : k \in { key(r) : r \in df_filtered } }]
    /\ pc' = "grouped"
    /\ UNCHANGED <<schedule_tbl, events_tbl, req, sql, result, py>>

\* matches_query = get_teams_match_count_query(..., q_teams, date_range); df_matches
FetchMatchCounts ==
    /\ pc = "grouped"
    /\ sql' = GetTeamsMatchCountQuery(req.query.teams, req.date_range)
    /\ result' = RunMatchCount(GetTeamsMatchCountQuery(req.query.teams, req.date_range),
                               schedule_tbl)
    /\ df' = [df EXCEPT !.matches =
                RunMatchCount(GetTeamsMatchCountQuery(req.query.teams, req.date_range),
                              schedule_tbl).rows]
    /\ pc' = "counted"
    /\ UNCHANGED <<schedule_tbl, events_tbl, req, py>>

\* total_games of a row of df_agg: NaN (NULLNUM) where the left merge finds no row
TotalGames(df_matches, aggregation_mode, g) ==
    IF aggregation_mode = "Por Temporada"
    THEN LET hit == { m \in df_matches : m.team = g.team /\ m.season = g.season }
         IN  IF hit = {} THEN NULLNUM ELSE (CHOOSE m \in hit : TRUE).total_games
    ELSE IF df_matches # {}
    THEN LET hit == { m \in df_matches : m.team = g.team }
         IN  IF hit = {} THEN NULLNUM
             ELSE SumRows({ [rid |-> m.season, total_games |-> m.total_games] : m \in hit },
                          "total_games")
    ELSE 0

\* Series.fillna(other): other where the value is NaN, the value elsewhere
FillNa(v, other) == IF v = NULLNUM THEN other ELSE v

\* the merges, matches = total_games.fillna(matches_with_event), "Por Jogo"
MergeMatches ==
    /\ pc = "counted"
    /\ df' = [df EXCEPT !.agg =
                { LET total_games == TotalGames(df.matches, req.aggregation_mode, g)
                      matches == FillNa(total_games, g.matches_with_event)
                  IN  g @@ [total_games |-> total_games,
                            matches |-> matches,
                            display_metric |-> FillNa0(PandasDiv(g.metric_count, matches))]
                  : g \in df.agg }]
    /\ pc' = "merged"
    /\ UNCHANGED <<schedule_tbl, events_tbl, req, sql, result, py>>

NextPage == LoadDynamicData \/ FilterAndGroup \/ FetchMatchCounts \/ MergeMatches

PageSchedule(day, hour) ==
    [y \in YEARS_TO_QUERY |->
        IF y = 2024
        THEN { ScheduleRow(1, y, 100, Midnight(10) + 15, "A", "B", 1, 0, "Finished"),
               ScheduleRow(2, y, 101, Midnight(day) + hour, "B", "A", 0, 0, "Finished") }
        ELSE IF y = 2025
        THEN { ScheduleRow(3, y, 102, Midnight(30) + 20, "A", "C", 2, 2, "Finished") }
        ELSE {}]

PageKinds ==
    <<[year |-> 2024, game_id |-> 100, team |-> "A"],
      [year |-> 2024, game_id |-> 100, team |-> "B"],
      [year |-> 2024, game_id |-> 101, team |-> "A"],
      [year |-> 2024, game_id |-> 101, team |-> "B"],
      [year |-> 2025, game_id |-> 102, team |-> "A"]>>

PageEvents(f) ==
    [y \in YEARS_TO_QUERY |->
        { EventRow(i, PageKinds[f[i]].game_id, PageKinds[f[i]].team, "P1", 1,
                   "Pass", "Successful", "[]", NULLNUM)
          : i \in { j \in DOMAIN f : PageKinds[f[j]].year = y } }]

\* the ranges the date_input returns: both ends, or the start alone
PagePeriods == { <<10, 12>>, <<10, 30>>, <<11, 30>>, <<12, 12>>, <<10>> }

PageRequest ==
    Request("Equipes", PyList(<<"Pass">>), PyStr("Todos"), PyStr("Todos (Qualquer)"),
            FALSE, PyNone, PyNone, PyList(<<>>), PyList(<<>>), PyList(<<>>))

InitPage ==
    /\ \E day \in {11, 12}, hour \in {0, 16} : schedule_tbl = PageSchedule(day, hour)
    /\ \E n \in 0..MaxEvents :
          \E f \in [1..n -> 1..Len(PageKinds)] :
              /\ \A i \in 1..(n - 1) : f[i] <= f[i + 1]
              /\ events_tbl = PageEvents(f)
    /\ \E teams \in {PyNone, PyList(<<"A">>)}, date_range \in PagePeriods :
       \E aggregation_mode \in {"Por Temporada", "Histórico"} :
          req = [query |-> [PageRequest EXCEPT !.teams = teams],
                 date_range |-> date_range,
                 aggregation_mode |-> aggregation_mode]
    /\ pc = "start"
    /\ sql = NoQuery
    /\ result = NoResult
    /\ df = NoFrame
    /\ py = NoCalls

SpecPage == InitPage /\ [][NextPage]_vars

MatchesCoverWhenCountSeesEveryMatch ==
    (/\ pc = "merged"
     /\ \A m \in BuildScheduleUnion(schedule_tbl) :
           Len(req.date_range) = 2 /\ DateOf(m.match_date) = req.date_range[2]
               => m.match_date = Midnight(req.date_range[2]))
    => \A g \in df.agg : g.matches > 0 /\ g.matches >= g.matches_with_event

====
